---- MODULE Spec2Model ----
(***************************************************************************)
(* Link-state routing core of easytier/src/peers/peer_ospf_route.rs:       *)
(* the synced route database (SyncedRouteInfo), the route-table builder    *)
(* (RouteTable), the per-neighbour sync session (SyncRouteSession), the    *)
(* service that owns them (PeerRouteServiceImpl) and the sync protocol     *)
(* (RouteSessionManager / RouteService::sync_route_info).                  *)
(*                                                                         *)
(* Conventions.  A Rust Option<T> is a set with at most one element        *)
(* (None = {}, Some(x) = {x}).  A DashMap is a function whose DOMAIN is    *)
(* the key set.  Tasks interleave at their await points: one action is     *)
(* the code between two awaits of one task.                                *)
(***************************************************************************)
EXTENDS Integers, Sequences, FiniteSets, TLC

VARIABLES
    nodes,   \* node id -> state of that node's PeerRoute (service, tasks)
    rpcs,    \* sync_route_info calls in flight (requests and responses)
    topo,    \* node id -> what its peer interface's list_peers() returns
    ctx,     \* node id -> its global context (id, ipv4, cidrs, hostname, NAT)
    now,     \* wall clock (SystemTime::now()), in seconds
    turn     \* history: 0 or 1, flips with every step that changes the state

vars == <<nodes, rpcs, topo, ctx, now, turn>>

\* ------------------------------------------------------------------------
\* Program constants
\* ------------------------------------------------------------------------
SERVICE_ID == 7
UPDATE_PEER_INFO_PERIOD == 3600
REMOVE_DEAD_PEER_INFO_AFTER == 3660
\* Version and the rpc counters are u32: the bounds below keep every counter
\* far from 2^32, so no increment of the model wraps.

\* ------------------------------------------------------------------------
\* Bounds of the model
\* ------------------------------------------------------------------------
\* A node changes its published descriptor (NAT type re-probed) only while
\* its own descriptor version is below this.
MaxVersion == 2
\* A node creates at most this many sessions per neighbour.
MaxSessions == 2
\* rpc_tx_count / rpc_rx_count are counted up to this value.
MaxRpcCount == 3
\* Links close and open at most this many times.
MaxLinkEvents == 2

\* ------------------------------------------------------------------------
\* Maps and sequences
\* ------------------------------------------------------------------------
EmptyMap == [x \in {} |-> 0]

Put(m, k, v) == [x \in (DOMAIN m) \cup {k} |-> IF x = k THEN v ELSE m[x]]

Del(m, k) == [x \in (DOMAIN m) \ {k} |-> m[x]]

Range(f) == {f[x] : x \in DOMAIN f}

\* F applied to the value of e (a Rust `let`: e is evaluated once, where the
\* statement stands)
With(e, F(_)) == CHOOSE r \in {F(v) : v \in {e}} : TRUE

RECURSIVE SortedSeq(_)
\* The elements of a finite set of integers in ascending order (the order
\* in which this model iterates a DashMap or a BTreeSet).
SortedSeq(S) ==
    IF S = {} THEN <<>>
    ELSE LET m == CHOOSE x \in S : \A y \in S : x <= y
         IN  <<m>> \o SortedSeq(S \ {m})

MinOf(S) == CHOOSE x \in S : \A y \in S : x <= y

MaxOf(S) == CHOOSE x \in S : \A y \in S : y <= x

RECURSIVE SumSeq(_)
SumSeq(q) == IF q = <<>> THEN 0 ELSE Head(q) + SumSeq(Tail(q))

\* ------------------------------------------------------------------------
\* cidr::IpCidr and its text.  An address is <<network, host>>, the host
\* part being what a prefix of 24 bits leaves free.  A text is an address
\* followed by "/24", by "/32" or by nothing: [addr, len], len a set of at
\* most one prefix length.
\* ------------------------------------------------------------------------
\* IpCidr::to_string: a host address is written without its prefix length
cidr_to_string(c) ==
    [addr |-> c.addr, len |-> IF c.len = 32 THEN {} ELSE {c.len}]

\* str::parse::<IpCidr>(): Err (the empty set) when host bits are set
\* beyond the prefix
parse_cidr(text) ==
    IF text.len = {} THEN {[addr |-> text.addr, len |-> 32]}
    ELSE IF 24 \in text.len /\ text.addr[2] # 0 THEN {}
    ELSE {[addr |-> text.addr, len |-> l] : l \in text.len}

\* get_proxy_cidrs().iter().map(|x| x.to_string())
\*     .chain(get_vpn_portal_cidr().map(|x| x.to_string()))
cidr_strings(global_ctx) ==
    [i \in 1..Len(global_ctx.proxy_cidrs \o global_ctx.vpn_portal_cidr) |->
        cidr_to_string((global_ctx.proxy_cidrs \o global_ctx.vpn_portal_cidr)[i])]

\* ------------------------------------------------------------------------
\* RoutePeerInfo
\* ------------------------------------------------------------------------
NewRoutePeerInfo(t) ==
    [peer_id |-> 0, inst_id |-> 0, cost |-> 0, ipv4_addr |-> {},
     proxy_cidrs |-> <<>>, hostname |-> {}, udp_stun_info |-> 0,
     last_update |-> t, version |-> 0]

update_self_always_bump(self, my_peer_id, global_ctx, t) ==
    [peer_id |-> my_peer_id, inst_id |-> global_ctx.id, cost |-> 0,
     ipv4_addr |-> global_ctx.ipv4,
     proxy_cidrs |-> cidr_strings(global_ctx),
     hostname |-> {global_ctx.hostname},
     udp_stun_info |-> global_ctx.udp_nat_type,
     last_update |-> t, version |-> self.version + 1]

\* a variant of update_self without the periodic refresh
update_self_on_change_only(self, my_peer_id, global_ctx, t) ==
    LET new == [peer_id |-> my_peer_id, inst_id |-> global_ctx.id, cost |-> 0,
                ipv4_addr |-> global_ctx.ipv4,
                proxy_cidrs |-> cidr_strings(global_ctx),
                hostname |-> {global_ctx.hostname},
                udp_stun_info |-> global_ctx.udp_nat_type,
                last_update |-> self.last_update, version |-> self.version]
    IN  IF new # self
        THEN [new EXCEPT !.last_update = t,
                         !.version = @ + 1]
        ELSE new

update_self(self, my_peer_id, global_ctx, t) ==
    LET new == [peer_id |-> my_peer_id, inst_id |-> global_ctx.id, cost |-> 0,
                ipv4_addr |-> global_ctx.ipv4,
                proxy_cidrs |-> cidr_strings(global_ctx),
                hostname |-> {global_ctx.hostname},
                udp_stun_info |-> global_ctx.udp_nat_type,
                last_update |-> self.last_update, version |-> self.version]
        \* SystemTime::elapsed() is Err when last_update is in the future
        need_update_periodically ==
            IF t >= new.last_update
            THEN t - new.last_update > UPDATE_PEER_INFO_PERIOD
            ELSE TRUE
    IN  IF new # self \/ need_update_periodically
        THEN [new EXCEPT !.last_update = t,
                         !.version = @ + 1]
        ELSE new

\* ------------------------------------------------------------------------
\* RouteConnBitmap: peer_ids is a sequence of <<peer_id, version>>, bitmap a
\* sequence of bytes (0..255), bit idx is bit (idx % 8) of byte (idx / 8).
\* ------------------------------------------------------------------------
NewRouteConnBitmap == [peer_ids |-> <<>>, bitmap |-> <<>>]

\* a variant that counts the bits of a byte from its high end
get_bit_high_first(bm, idx) ==
    LET byte_idx == idx \div 8
        bit_idx == idx % 8
        byte == bm.bitmap[byte_idx + 1]
    IN  (byte \div (2 ^ (7 - bit_idx))) % 2 = 1

get_bit(bm, idx) ==
    LET byte_idx == idx \div 8
        bit_idx == idx % 8
        byte == bm.bitmap[byte_idx + 1]
    IN  (byte \div (2 ^ bit_idx)) % 2 = 1

get_connected_peers(bm, peer_idx) ==
    {bm.peer_ids[i][1] : i \in {j \in 1..Len(bm.peer_ids) :
        get_bit(bm, (peer_idx - 1) * Len(bm.peer_ids) + (j - 1))}}

\* ------------------------------------------------------------------------
\* SyncedRouteInfo: [peer_infos, conn_map]; conn_map[p] = [peers, version]
\* ------------------------------------------------------------------------
NewSyncedRouteInfo == [peer_infos |-> EmptyMap, conn_map |-> EmptyMap]

remove_peer(db, peer_id) ==
    [peer_infos |-> Del(db.peer_infos, peer_id),
     conn_map |-> Del(db.conn_map, peer_id)]

\* a variant that inserts the placeholder descriptors and no adjacency record
fill_empty_peer_info_descriptors_only(db, peer_ids, t) ==
    [db EXCEPT !.peer_infos =
        [p \in (DOMAIN db.peer_infos) \cup peer_ids |->
            IF p \in DOMAIN db.peer_infos THEN db.peer_infos[p]
            ELSE NewRoutePeerInfo(t)]]

fill_empty_peer_info(db, peer_ids, t) ==
    [peer_infos |->
        [p \in (DOMAIN db.peer_infos) \cup peer_ids |->
            IF p \in DOMAIN db.peer_infos THEN db.peer_infos[p]
            ELSE NewRoutePeerInfo(t)],
     conn_map |->
        [p \in (DOMAIN db.conn_map) \cup peer_ids |->
            IF p \in DOMAIN db.conn_map THEN db.conn_map[p]
            ELSE [peers |-> {}, version |-> 0]]]

get_peer_info_version_with_default(db, peer_id) ==
    IF peer_id \in DOMAIN db.peer_infos THEN db.peer_infos[peer_id].version ELSE 0

\* a variant that takes a newer descriptor of the node's own id for a
\* duplicate of the caller
RECURSIVE check_duplicate_peer_id_no_panic(_, _, _, _)
check_duplicate_peer_id_no_panic(db, my_peer_id, dst_peer_id, route_infos) ==
    IF route_infos = <<>> THEN "Ok"
    ELSE LET info == Head(route_infos)
             stored == get_peer_info_version_with_default(db, info.peer_id)
         IN  IF info.peer_id = my_peer_id /\ info.version > stored
             THEN "DuplicatePeerId"
             ELSE IF info.peer_id = dst_peer_id /\ info.version < stored
             THEN "DuplicatePeerId"
             ELSE check_duplicate_peer_id_no_panic(db, my_peer_id, dst_peer_id,
                                                   Tail(route_infos))

RECURSIVE check_duplicate_peer_id(_, _, _, _)
\* "Ok", "DuplicatePeerId" (Err) or "Panic" (panic!("my peer id is duplicated"))
check_duplicate_peer_id(db, my_peer_id, dst_peer_id, route_infos) ==
    IF route_infos = <<>> THEN "Ok"
    ELSE LET info == Head(route_infos)
             stored == get_peer_info_version_with_default(db, info.peer_id)
         IN  IF info.peer_id = my_peer_id /\ info.version > stored
             THEN "Panic"
             ELSE IF info.peer_id = dst_peer_id /\ info.version < stored
             THEN "DuplicatePeerId"
             ELSE check_duplicate_peer_id(db, my_peer_id, dst_peer_id,
                                          Tail(route_infos))

accept_peer_info_any_version(old_entry, route_info) == TRUE

\* a variant that takes a descriptor of the stored version over the stored one
accept_peer_info_same_version(old_entry, route_info) ==
    route_info.version >= old_entry.version

\* the and_modify test of update_peer_infos
accept_peer_info(old_entry, route_info) ==
    route_info.version > old_entry.version

RECURSIVE apply_peer_infos(_, _, _)
apply_peer_infos(peer_infos, infos, t) ==
    IF infos = <<>> THEN peer_infos
    ELSE LET route_info == [Head(infos) EXCEPT !.last_update = t]
             k == route_info.peer_id
             next == IF k \in DOMAIN peer_infos
                     THEN IF accept_peer_info(peer_infos[k], route_info)
                          THEN Put(peer_infos, k, route_info)
                          ELSE peer_infos
                     ELSE Put(peer_infos, k, route_info)
         IN  apply_peer_infos(next, Tail(infos), t)

\* variant: the descriptors are applied before the duplicate check decides
update_peer_infos_apply_first(db, my_peer_id, dst_peer_id, peer_infos, t) ==
    [result |-> check_duplicate_peer_id(db, my_peer_id, dst_peer_id, peer_infos),
     db |-> [db EXCEPT !.peer_infos = apply_peer_infos(@, peer_infos, t)]]

\* [result, db]: result is what check_duplicate_peer_id gave
update_peer_infos(db, my_peer_id, dst_peer_id, peer_infos, t) ==
    LET chk == check_duplicate_peer_id(db, my_peer_id, dst_peer_id, peer_infos)
    IN  IF chk # "Ok" THEN [result |-> chk, db |-> db]
        ELSE [result |-> "Ok",
              db |-> [db EXCEPT !.peer_infos = apply_peer_infos(@, peer_infos, t)]]

\* a variant whose rows replace the stored row whatever its version
RECURSIVE update_conn_map_from_any_version(_, _, _, _)
update_conn_map_from_any_version(db, conn_bitmap, peer_idx, t) ==
    IF peer_idx > Len(conn_bitmap.peer_ids) THEN db
    ELSE LET peer_id == conn_bitmap.peer_ids[peer_idx][1]
             version == conn_bitmap.peer_ids[peer_idx][2]
             connceted_peers == get_connected_peers(conn_bitmap, peer_idx)
             filled == fill_empty_peer_info(db, connceted_peers, t)
         IN  update_conn_map_from_any_version(
                [filled EXCEPT !.conn_map =
                    Put(@, peer_id, [peers |-> connceted_peers,
                                     version |-> version])],
                conn_bitmap, peer_idx + 1, t)

\* a variant whose rows also replace a stored row of their own version
RECURSIVE update_conn_map_from_same_version(_, _, _, _)
update_conn_map_from_same_version(db, conn_bitmap, peer_idx, t) ==
    IF peer_idx > Len(conn_bitmap.peer_ids) THEN db
    ELSE LET peer_id == conn_bitmap.peer_ids[peer_idx][1]
             version == conn_bitmap.peer_ids[peer_idx][2]
             connceted_peers == get_connected_peers(conn_bitmap, peer_idx)
             filled == fill_empty_peer_info(db, connceted_peers, t)
             old == filled.conn_map
             new == IF peer_id \in DOMAIN old /\ version < old[peer_id].version
                    THEN old
                    ELSE Put(old, peer_id,
                             [peers |-> connceted_peers, version |-> version])
         IN  update_conn_map_from_same_version([filled EXCEPT !.conn_map = new],
                                               conn_bitmap, peer_idx + 1, t)

RECURSIVE update_conn_map_from(_, _, _, _)
update_conn_map_from(db, conn_bitmap, peer_idx, t) ==
    IF peer_idx > Len(conn_bitmap.peer_ids) THEN db
    ELSE LET peer_id == conn_bitmap.peer_ids[peer_idx][1]
             version == conn_bitmap.peer_ids[peer_idx][2]
             connceted_peers == get_connected_peers(conn_bitmap, peer_idx)
             filled == fill_empty_peer_info(db, connceted_peers, t)
             old == filled.conn_map
             new == IF peer_id \in DOMAIN old
                    THEN IF version > old[peer_id].version
                         THEN Put(old, peer_id,
                                  [peers |-> connceted_peers, version |-> version])
                         ELSE old
                    ELSE Put(old, peer_id,
                             [peers |-> connceted_peers, version |-> version])
         IN  update_conn_map_from([filled EXCEPT !.conn_map = new],
                                  conn_bitmap, peer_idx + 1, t)

update_conn_map(db, conn_bitmap, t) ==
    update_conn_map_from(
        fill_empty_peer_info(db, {conn_bitmap.peer_ids[i][1] :
                                    i \in 1..Len(conn_bitmap.peer_ids)}, t),
        conn_bitmap, 1, t)

\* [changed, db]
update_my_peer_info_db(db, my_peer_id, global_ctx, t) ==
    LET old == IF my_peer_id \in DOMAIN db.peer_infos
               THEN db.peer_infos[my_peer_id]
               ELSE NewRoutePeerInfo(t)
        new == update_self(old, my_peer_id, global_ctx, t)
    IN  [changed |-> new.version # old.version,
         db |-> [db EXCEPT !.peer_infos = Put(@, my_peer_id, new)]]

\* a variant that never takes a peer out of the node's own row
update_my_conn_info_db_add_only(db, my_peer_id, connected_peers, t) ==
    LET filled == fill_empty_peer_info(db, connected_peers, t)
        cm == IF my_peer_id \in DOMAIN filled.conn_map
              THEN filled.conn_map
              ELSE Put(filled.conn_map, my_peer_id, [peers |-> {}, version |-> 0])
        mine == cm[my_peer_id]
    IN  IF connected_peers \subseteq mine.peers
        THEN [changed |-> FALSE, db |-> [filled EXCEPT !.conn_map = cm]]
        ELSE [changed |-> TRUE,
              db |-> [filled EXCEPT !.conn_map =
                        Put(cm, my_peer_id,
                            [peers |-> connected_peers \cup mine.peers,
                             version |-> mine.version + 1])]]

\* a variant of update_my_conn_info that replaces the row and keeps its version
update_my_conn_info_db_version_kept(db, my_peer_id, connected_peers, t) ==
    LET filled == fill_empty_peer_info(db, connected_peers, t)
        cm == IF my_peer_id \in DOMAIN filled.conn_map
              THEN filled.conn_map
              ELSE Put(filled.conn_map, my_peer_id, [peers |-> {}, version |-> 0])
        mine == cm[my_peer_id]
    IN  IF connected_peers = mine.peers
        THEN [changed |-> FALSE, db |-> [filled EXCEPT !.conn_map = cm]]
        ELSE [changed |-> TRUE,
              db |-> [filled EXCEPT !.conn_map =
                        Put(cm, my_peer_id,
                            [peers |-> connected_peers,
                             version |-> mine.version])]]

\* [changed, db]
update_my_conn_info_db(db, my_peer_id, connected_peers, t) ==
    LET filled == fill_empty_peer_info(db, connected_peers, t)
        cm == IF my_peer_id \in DOMAIN filled.conn_map
              THEN filled.conn_map
              ELSE Put(filled.conn_map, my_peer_id, [peers |-> {}, version |-> 0])
        mine == cm[my_peer_id]
    IN  IF connected_peers = mine.peers
        THEN [changed |-> FALSE, db |-> [filled EXCEPT !.conn_map = cm]]
        ELSE [changed |-> TRUE,
              db |-> [filled EXCEPT !.conn_map =
                        Put(cm, my_peer_id,
                            [peers |-> connected_peers,
                             version |-> mine.version + 1])]]

is_peer_bidirectly_connected(db, src_peer_id, dst_peer_id) ==
    IF src_peer_id \in DOMAIN db.conn_map
    THEN dst_peer_id \in db.conn_map[src_peer_id].peers
    ELSE FALSE

is_peer_directly_connected(db, src_peer_id, dst_peer_id) ==
    \/ is_peer_bidirectly_connected(db, src_peer_id, dst_peer_id)
    \/ is_peer_bidirectly_connected(db, dst_peer_id, src_peer_id)

\* ------------------------------------------------------------------------
\* RouteTable: [peer_infos, next_hop_map, ipv4_peer_id_map, cidr_peer_id_map]
\* next_hop_map[p] = <<next hop peer id, cost>>
\* ------------------------------------------------------------------------
NewRouteTable ==
    [peer_infos |-> EmptyMap, next_hop_map |-> EmptyMap,
     ipv4_peer_id_map |-> EmptyMap, cidr_peer_id_map |-> EmptyMap]

get_next_hop(table, dst_peer_id) ==
    IF dst_peer_id \in DOMAIN table.next_hop_map
    THEN {table.next_hop_map[dst_peer_id]}
    ELSE {}

peer_reachable(table, peer_id) == peer_id \in DOMAIN table.next_hop_map

\* RouteCostCalculatorInterface: a calculator is the table of the costs it
\* returns for the pairs it distinguishes; every other pair costs 1
\* (DefaultRouteCostCalculator distinguishes none).
DefaultRouteCostCalculator == EmptyMap

calculate_cost(cost_calc, src, dst) ==
    IF <<src, dst>> \in DOMAIN cost_calc THEN cost_calc[<<src, dst>>] ELSE 1

\* NatType::try_from(udp_stun_info as i32): the protobuf enumeration
NatTypeFromI32(code) ==
    CASE code = 0 -> "Unknown"
      [] code = 1 -> "OpenInternet"
      [] code = 2 -> "NoPat"
      [] code = 3 -> "FullCone"
      [] code = 4 -> "Restricted"
      [] code = 5 -> "PortRestricted"
      [] code = 6 -> "Symmetric"
      [] code = 7 -> "SymUdpFirewall"
      [] OTHER -> "Invalid"

get_nat_type(table, peer_id) ==
    IF peer_id \in DOMAIN table.peer_infos
    THEN {NatTypeFromI32(table.peer_infos[peer_id].udp_stun_info)}
    ELSE {}

\* a variant whose edges run from the listed peer to the owner of the row
peer_graph_edges_reversed(peers, synced_info) ==
    {e \in peers \X peers :
        /\ e[2] \in DOMAIN synced_info.conn_map
        /\ e[1] \in synced_info.conn_map[e[2]].peers}

\* The directed graph of build_peer_graph_from_synced_info: its edges, as
\* pairs <<a, b>> of peers of the node set; the weight of an edge is
\* calculate_cost(a, b).
peer_graph_edges(peers, synced_info) ==
    {e \in peers \X peers :
        /\ e[1] \in DOMAIN synced_info.conn_map
        /\ e[2] \in synced_info.conn_map[e[1]].peers}

RECURSIVE hop_layers(_, _, _, _, _)
\* breadth-first layers: the result of dijkstra() with every edge costing 1
hop_layers(peers, edges, frontier, d, acc) ==
    LET next == {b \in peers \ DOMAIN acc :
                    \E a \in frontier : <<a, b>> \in edges}
    IN  IF next = {} THEN acc
        ELSE hop_layers(peers, edges, next, d + 1,
                        [p \in (DOMAIN acc) \cup next |->
                            IF p \in DOMAIN acc THEN acc[p] ELSE d + 1])

dijkstra_unit(peers, edges, src) ==
    hop_layers(peers, edges, {src}, 0, [p \in {src} |-> 0])

RECURSIVE simple_paths_len(_, _, _, _)
\* the simple paths of exactly k edges that start at src
simple_paths_len(peers, edges, src, k) ==
    IF k = 0 THEN {<<src>>}
    ELSE LET prev == simple_paths_len(peers, edges, src, k - 1)
         IN  {Append(x[1], x[2]) :
                x \in {y \in prev \X peers :
                        /\ <<y[1][Len(y[1])], y[2]>> \in edges
                        /\ y[2] \notin Range(y[1])}}

\* all_simple_paths(graph, from, to, h - 1, Some(h - 1))
all_simple_paths(peers, edges, from, to, h) ==
    {p \in simple_paths_len(peers, edges, from, h) : p[h + 1] = to}

path_cost(cost_calc, path) ==
    SumSeq([i \in 1..(Len(path) - 1) |->
                calculate_cost(cost_calc, path[i], path[i + 1])])

\* a variant that settles on a path of greatest cost
max_cost_path(cost_calc, paths) ==
    CHOOSE p \in paths :
        \A q \in paths : path_cost(cost_calc, p) >= path_cost(cost_calc, q)

\* The path the scans of gen_next_hop_map_with_least_hop and astar settle
\* on: one of least cost (which one, among equals, is left to the order in
\* which the paths are enumerated).
min_cost_path(cost_calc, paths) ==
    CHOOSE p \in paths :
        \A q \in paths : path_cost(cost_calc, p) <= path_cost(cost_calc, q)

gen_next_hop_map_with_least_hop(my_peer_id, peers, edges, cost_calc) ==
    LET res == dijkstra_unit(peers, edges, my_peer_id)
        dsts == {p \in DOMAIN res : res[p] # 0}
    IN  [p \in dsts |->
            LET all_paths == all_simple_paths(peers, edges, my_peer_id, p, res[p])
                min_path == min_cost_path(cost_calc, all_paths)
            IN  <<min_path[2], res[p]>>]

\* a variant that answers with the least-hop map
gen_next_hop_map_least_cost_by_hops(my_peer_id, peers, edges, cost_calc) ==
    gen_next_hop_map_with_least_hop(my_peer_id, peers, edges, cost_calc)

gen_next_hop_map_with_least_cost(my_peer_id, peers, edges, cost_calc) ==
    LET paths_to(d) ==
            UNION {all_simple_paths(peers, edges, my_peer_id, d, h) :
                        h \in 1..(Cardinality(peers) - 1)}
        dsts == {d \in peers \ {my_peer_id} : paths_to(d) # {}}
    IN  [d \in dsts |->
            LET path == min_cost_path(cost_calc, paths_to(d))
            IN  <<path[2], path_cost(cost_calc, path)>>]

\* variant: no descriptor is taken for a placeholder
is_placeholder_never(info) == FALSE

\* the test `info.version == 0` that keeps a descriptor out of the table
is_placeholder(info) == info.version = 0

\* the IpCidr values the first k texts of a descriptor parse to
parsed_cidrs(info, k) ==
    UNION {parse_cidr(info.proxy_cidrs[i]) : i \in 1..k}

\* the texts of a descriptor that precede its first unparseable one
parsed_before_err(info) ==
    MinOf({i \in 1..Len(info.proxy_cidrs) : parse_cidr(info.proxy_cidrs[i]) = {}}
          \cup {Len(info.proxy_cidrs) + 1}) - 1

\* The loop that fills ipv4_peer_id_map and cidr_peer_id_map, over the
\* reachable peers in ascending order (a later insert replaces an earlier
\* one); it stops at the first text that cidr.parse().unwrap() rejects.
\* [ipv4_peer_id_map, cidr_peer_id_map, panicked]
fill_indexes(infos, reach) ==
    With({p \in reach : parsed_before_err(infos[p]) < Len(infos[p].proxy_cidrs)},
         LAMBDA bad :
    With({p \in reach : \A f \in bad : p <= f}, LAMBDA scanned :
        [ipv4_peer_id_map |->
            [a \in UNION {infos[p].ipv4_addr : p \in scanned} |->
                MaxOf({p \in scanned : a \in infos[p].ipv4_addr})],
         cidr_peer_id_map |->
            [c \in UNION {parsed_cidrs(infos[p], parsed_before_err(infos[p])) :
                            p \in scanned} |->
                MaxOf({p \in scanned :
                        c \in parsed_cidrs(infos[p], parsed_before_err(infos[p]))})],
         panicked |-> bad # {}]))

\* a variant that skips no peer
build_indexes_unfiltered(infos, next_hop_map) ==
    fill_indexes(infos, DOMAIN infos)

\* `if !self.next_hop_map.contains_key(item.key()) { continue; }`: only the
\* peers of next_hop_map are indexed
build_indexes(infos, next_hop_map) ==
    fill_indexes(infos, {p \in DOMAIN infos : p \in DOMAIN next_hop_map})

\* [table, panicked]: panicked when idx_map.get(&my_peer_id).unwrap() or
\* cidr.parse().unwrap() fails, which leaves the table as the statements
\* before it made it.
build_from_synced_info(self, my_peer_id, synced_info, policy, cost_calc) ==
    With([p \in {q \in DOMAIN synced_info.peer_infos :
                        ~is_placeholder(synced_info.peer_infos[q])} |->
                synced_info.peer_infos[p]], LAMBDA infos :
    IF DOMAIN infos = {}
    THEN [table |-> [self EXCEPT !.peer_infos = infos], panicked |-> FALSE]
    ELSE IF my_peer_id \notin DOMAIN infos
    THEN [table |-> [self EXCEPT !.peer_infos = infos,
                                 !.next_hop_map = [p \in {my_peer_id} |->
                                                        <<my_peer_id, 0>>]],
          panicked |-> TRUE]
    ELSE
    With(peer_graph_edges(DOMAIN infos, synced_info), LAMBDA edges :
    With(IF policy = "LeastHop"
         THEN gen_next_hop_map_with_least_hop(my_peer_id, DOMAIN infos, edges, cost_calc)
         ELSE gen_next_hop_map_with_least_cost(my_peer_id, DOMAIN infos, edges, cost_calc),
         LAMBDA found :
    With([p \in (DOMAIN found) \cup {my_peer_id} |->
                IF p \in DOMAIN found THEN found[p] ELSE <<my_peer_id, 0>>],
         LAMBDA next_hop_map :
    With(build_indexes(infos, next_hop_map), LAMBDA idx :
        [table |->
            [peer_infos |-> infos,
             next_hop_map |-> next_hop_map,
             ipv4_peer_id_map |-> idx.ipv4_peer_id_map,
             cidr_peer_id_map |-> idx.cidr_peer_id_map],
         panicked |-> idx.panicked])))))

\* ------------------------------------------------------------------------
\* SyncRouteSession.  my_session_id is rand::random(): the model draws the
\* k-th session a node creates for one neighbour the id k (distinct from the
\* ids of that node's earlier sessions for the neighbour, and never 0).
\* task_running is SessionTask::is_running().
\* ------------------------------------------------------------------------
\* a variant in which a session created after the first one for a neighbour
\* starts with counters that are not zero
NewSyncRouteSession_counters_kept(dst_peer_id, session_id) ==
    [dst_peer_id |-> dst_peer_id,
     dst_saved_peer_info_versions |-> EmptyMap,
     dst_saved_conn_bitmap_version |-> EmptyMap,
     my_session_id |-> session_id,
     dst_session_id |-> 0,
     we_are_initiator |-> FALSE,
     dst_is_initiator |-> FALSE,
     need_sync_initiator_info |-> FALSE,
     rpc_tx_count |-> IF session_id > 1 THEN 2 ELSE 0,
     rpc_rx_count |-> IF session_id > 1 THEN 2 ELSE 0,
     task_running |-> FALSE]

NewSyncRouteSession(dst_peer_id, session_id) ==
    [dst_peer_id |-> dst_peer_id,
     dst_saved_peer_info_versions |-> EmptyMap,
     dst_saved_conn_bitmap_version |-> EmptyMap,
     my_session_id |-> session_id,
     dst_session_id |-> 0,
     we_are_initiator |-> FALSE,
     dst_is_initiator |-> FALSE,
     need_sync_initiator_info |-> FALSE,
     rpc_tx_count |-> 0,
     rpc_rx_count |-> 0,
     task_running |-> FALSE]

\* variant: a peer the session has saved nothing for counts as up to date
\* (unwrap_or(true))
check_saved_unknown_is_up_to_date(session, peer_id, version) ==
    IF version = 0 \/ peer_id = session.dst_peer_id THEN TRUE
    ELSE IF peer_id \in DOMAIN session.dst_saved_peer_info_versions
         THEN session.dst_saved_peer_info_versions[peer_id] >= version
         ELSE TRUE

\* variant: the saved version must exceed the stored one (> for >=)
check_saved_strictly_newer(session, peer_id, version) ==
    IF version = 0 \/ peer_id = session.dst_peer_id THEN TRUE
    ELSE IF peer_id \in DOMAIN session.dst_saved_peer_info_versions
         THEN session.dst_saved_peer_info_versions[peer_id] > version
         ELSE FALSE

check_saved_peer_info_update_to_date(session, peer_id, version) ==
    IF version = 0 \/ peer_id = session.dst_peer_id THEN TRUE
    ELSE IF peer_id \in DOMAIN session.dst_saved_peer_info_versions
         THEN session.dst_saved_peer_info_versions[peer_id] >= version
         ELSE FALSE

\* entry(k).or_insert_with(AtomicVersion::new).set_if_larger(v) for every
\* <<k, v>> of the sequence kvs
set_if_larger_all(saved, kvs) ==
    LET ks == {kvs[i][1] : i \in 1..Len(kvs)}
    IN  [k \in (DOMAIN saved) \cup ks |->
            MaxOf({IF k \in DOMAIN saved THEN saved[k] ELSE 0}
                  \cup {kvs[i][2] : i \in {j \in 1..Len(kvs) : kvs[j][1] = k}})]

update_dst_saved_peer_info_version(session, infos) ==
    [session EXCEPT !.dst_saved_peer_info_versions =
        set_if_larger_all(@, [i \in 1..Len(infos) |->
                                <<infos[i].peer_id, infos[i].version>>])]

\* variant: the versions of the rows sent or received are not recorded
forget_dst_saved_conn_bitmap_version(session, conn_bitmap) == session

update_dst_saved_conn_bitmap_version(session, conn_bitmap) ==
    [session EXCEPT !.dst_saved_conn_bitmap_version =
        set_if_larger_all(@, conn_bitmap.peer_ids)]

\* a variant of update_initiator_flag that only ever sets the flag
update_initiator_flag_set_only(session, is_initiator) ==
    [session EXCEPT !.we_are_initiator = TRUE,
                    !.need_sync_initiator_info = TRUE]

update_initiator_flag(session, is_initiator) ==
    [session EXCEPT !.we_are_initiator = is_initiator,
                    !.need_sync_initiator_info = TRUE]

\* a variant of update_dst_session_id that stores the id and keeps the maps
update_dst_session_id_keeping_saved(session, session_id) ==
    [session EXCEPT !.dst_session_id = session_id]

update_dst_session_id(session, session_id) ==
    IF session_id # session.dst_session_id
    THEN [session EXCEPT !.dst_session_id = session_id,
                         !.dst_saved_conn_bitmap_version = EmptyMap,
                         !.dst_saved_peer_info_versions = EmptyMap]
    ELSE session

\* ------------------------------------------------------------------------
\* PeerRouteServiceImpl, with the state of the tasks PeerRoute::start spawns:
\*   cur_dst_peer_id_to_initiate  the local of maintain_sessions
\*   routine_pc                   where update_my_peer_info_routine stands
\*   session_count                sessions created so far, per neighbour
\*   calc_poisoned                the cost_calculator mutex is poisoned (a
\*                                build panicked while it was locked)
\*   routine_alive, election_alive, panics   which tasks have panicked
\* ------------------------------------------------------------------------
NewPeerRouteServiceImpl(my_peer_id) ==
    [my_peer_id |-> my_peer_id,
     sessions |-> EmptyMap,
     cost_calculator |-> DefaultRouteCostCalculator,
     calc_poisoned |-> FALSE,
     route_table |-> NewRouteTable,
     route_table_with_cost |-> NewRouteTable,
     synced_route_info |-> NewSyncedRouteInfo,
     cached_local_conn_map |-> NewRouteConnBitmap,
     cur_dst_peer_id_to_initiate |-> {},
     routine_pc |-> "update_my_peer_info",
     session_count |-> EmptyMap,
     routine_alive |-> TRUE,
     election_alive |-> TRUE,
     panics |-> {}]

\* a variant that answers from the least-hop table under either policy
get_next_hop_least_hop_only(s, dst_peer_id, policy) ==
    {x[1] : x \in get_next_hop(s.route_table, dst_peer_id)}

\* PeerRoute::get_next_hop_with_policy (get_next_hop is its LeastHop case):
\* the first component of the entry of the table the policy selects
get_next_hop_with_policy(s, dst_peer_id, policy) ==
    {x[1] : x \in get_next_hop(IF policy = "LeastCost"
                               THEN s.route_table_with_cost
                               ELSE s.route_table, dst_peer_id)}

SessionsCreated(s, dst_peer_id) ==
    IF dst_peer_id \in DOMAIN s.session_count THEN s.session_count[dst_peer_id] ELSE 0

get_or_create_session(s, dst_peer_id) ==
    IF dst_peer_id \in DOMAIN s.sessions THEN s
    ELSE [s EXCEPT
            !.sessions = Put(@, dst_peer_id,
                NewSyncRouteSession(dst_peer_id, SessionsCreated(s, dst_peer_id) + 1)),
            !.session_count = Put(@, dst_peer_id, SessionsCreated(s, dst_peer_id) + 1)]

remove_session(s, dst_peer_id) ==
    [s EXCEPT !.sessions = Del(@, dst_peer_id)]

\* get_or_create_session, then start_session_task
get_or_start_session(s, peer_id) ==
    LET c == get_or_create_session(s, peer_id)
    IN  [c EXCEPT !.sessions[peer_id].task_running = TRUE]

\* [s, panicked]
update_route_table(s) ==
    IF s.calc_poisoned THEN [s |-> s, panicked |-> TRUE]
    ELSE
    With(build_from_synced_info(s.route_table, s.my_peer_id,
            s.synced_route_info, "LeastHop", s.cost_calculator), LAMBDA hop :
    IF hop.panicked
    THEN [s |-> [s EXCEPT !.route_table = hop.table,
                          !.calc_poisoned = TRUE],
          panicked |-> TRUE]
    ELSE
    With(build_from_synced_info(s.route_table_with_cost, s.my_peer_id,
            s.synced_route_info, "LeastCost", s.cost_calculator), LAMBDA cost :
    IF cost.panicked
    THEN [s |-> [s EXCEPT !.route_table = hop.table,
                          !.route_table_with_cost = cost.table,
                          !.calc_poisoned = TRUE],
          panicked |-> TRUE]
    ELSE [s |-> [s EXCEPT !.route_table = hop.table,
                          !.route_table_with_cost = cost.table],
          panicked |-> FALSE]))

\* the bitmap update_route_table_and_cached_local_conn_bitmap assembles
build_cached_local_conn_map(s) ==
    With(s.synced_route_info.conn_map, LAMBDA cm :
    With(UNION {cm[p].peers : p \in DOMAIN cm}, LAMBDA all_dst_peer_ids :
    With(SortedSeq({p \in DOMAIN cm :
            p \in all_dst_peer_ids \/ peer_reachable(s.route_table, p)}),
         LAMBDA ids :
    With(Len(ids), LAMBDA n :
        [peer_ids |-> [i \in 1..n |-> <<ids[i], cm[ids[i]].version>>],
         bitmap |-> [k \in 1..((n * n + 7) \div 8) |->
                        SumSeq([b \in 1..8 |->
                            IF /\ 8 * (k - 1) + (b - 1) < n * n
                               /\ ids[((8 * (k - 1) + (b - 1)) % n) + 1] \in
                                    cm[ids[((8 * (k - 1) + (b - 1)) \div n) + 1]].peers
                            THEN 2 ^ (b - 1) ELSE 0])]]))))

\* [s, panicked]
update_route_table_and_cached_local_conn_bitmap(s) ==
    With(update_route_table(s), LAMBDA r :
        IF r.panicked THEN r
        ELSE [s |-> [r.s EXCEPT !.cached_local_conn_map =
                                    build_cached_local_conn_map(r.s)],
              panicked |-> FALSE])

\* [s, changed, panicked]
update_my_peer_info(s, global_ctx, t) ==
    With(update_my_peer_info_db(s.synced_route_info, s.my_peer_id, global_ctx, t),
         LAMBDA u :
    IF u.changed
    THEN With(update_route_table_and_cached_local_conn_bitmap(
                    [s EXCEPT !.synced_route_info = u.db]), LAMBDA r :
            [s |-> r.s, changed |-> TRUE, panicked |-> r.panicked])
    ELSE [s |-> [s EXCEPT !.synced_route_info = u.db],
          changed |-> FALSE, panicked |-> FALSE])

\* [s, changed, panicked]
update_my_conn_info(s, connected_peers, t) ==
    With(update_my_conn_info_db(s.synced_route_info, s.my_peer_id,
                                connected_peers, t), LAMBDA u :
    IF u.changed
    THEN With(update_route_table_and_cached_local_conn_bitmap(
                    [s EXCEPT !.synced_route_info = u.db]), LAMBDA r :
            [s |-> r.s, changed |-> TRUE, panicked |-> r.panicked])
    ELSE [s |-> [s EXCEPT !.synced_route_info = u.db],
          changed |-> FALSE, panicked |-> FALSE])

\* update_my_peer_info, then (after list_peers) update_my_conn_info
update_my_infos(s, global_ctx, connected_peers, t) ==
    With(update_my_peer_info(s, global_ctx, t), LAMBDA a :
    IF a.panicked THEN a
    ELSE With(update_my_conn_info(a.s, connected_peers, t), LAMBDA b :
            [s |-> b.s, changed |-> a.changed \/ b.changed,
             panicked |-> b.panicked]))

\* Into<Route> for RoutePeerInfo
IntoRoute(info) ==
    [peer_id |-> info.peer_id,
     ipv4_addr |-> IF info.ipv4_addr = {} THEN ""
                   ELSE ToString(CHOOSE a \in info.ipv4_addr : TRUE),
     next_hop_peer_id |-> 0,
     cost |-> info.cost,
     proxy_cidrs |-> info.proxy_cidrs,
     hostname |-> IF info.hostname = {} THEN ""
                  ELSE CHOOSE h \in info.hostname : TRUE,
     stun_info |-> IF NatTypeFromI32(info.udp_stun_info) = "Invalid"
                   THEN "Unknown"
                   ELSE NatTypeFromI32(info.udp_stun_info),
     inst_id |-> ToString(info.inst_id)]

\* Route::list_routes: the routes, as a set (their order is the DashMap's)
list_routes(s) ==
    {[IntoRoute(s.route_table.peer_infos[p]) EXCEPT
        !.next_hop_peer_id = s.route_table.next_hop_map[p][1],
        !.cost = s.route_table.next_hop_map[p][2]] :
        p \in {q \in DOMAIN s.route_table.peer_infos :
                /\ q # s.my_peer_id
                /\ get_next_hop(s.route_table, q) # {}}}

build_route_info_unfiltered(s, session) ==
    LET db == s.synced_route_info.peer_infos
        ids == SortedSeq({p \in DOMAIN db : peer_reachable(s.route_table, p)})
    IN  IF ids = <<>> THEN {} ELSE {[i \in 1..Len(ids) |-> db[ids[i]]]}

\* Option<Vec<RoutePeerInfo>>
build_route_info(s, session) ==
    LET db == s.synced_route_info.peer_infos
        ids == SortedSeq({p \in DOMAIN db :
                /\ ~check_saved_peer_info_update_to_date(session,
                        db[p].peer_id, db[p].version)
                /\ peer_reachable(s.route_table, p)})
    IN  IF ids = <<>> THEN {} ELSE {[i \in 1..Len(ids) |-> db[ids[i]]]}

\* Option<RouteConnBitmap>
build_conn_bitmap(s, session) ==
    LET labels == s.cached_local_conn_map.peer_ids
        saved == session.dst_saved_conn_bitmap_version
        need_update == \E i \in 1..Len(labels) :
                            \/ labels[i][1] \notin DOMAIN saved
                            \/ saved[labels[i][1]] # labels[i][2]
    IN  IF need_update THEN {s.cached_local_conn_map} ELSE {}

\* variant: the early return does not look at the descriptor delta
sync_needed_ignoring_descriptors(s, session) ==
    \/ build_conn_bitmap(s, session) # {}
    \/ session.need_sync_initiator_info

\* the test of sync_route_with_peer that leads past its early return
sync_needed(s, session) ==
    \/ build_route_info(s, session) # {}
    \/ build_conn_bitmap(s, session) # {}
    \/ session.need_sync_initiator_info

\* ------------------------------------------------------------------------
\* RouteService::sync_route_info (the server side).  One call in flight is
\*   [from, to, my_session_id, is_initiator, peer_infos, conn_bitmap,
\*    state, result, resp_is_initiator, resp_session_id]
\* state is "request" until the server has handled it, then "response".
\* ------------------------------------------------------------------------
SyncRequest(from, to, session, peer_infos, conn_bitmap) ==
    [from |-> from, to |-> to,
     my_session_id |-> session.my_session_id,
     is_initiator |-> session.we_are_initiator,
     peer_infos |-> peer_infos, conn_bitmap |-> conn_bitmap,
     state |-> "request", result |-> "", resp_is_initiator |-> FALSE,
     resp_session_id |-> 0]

SyncResponse(m, result, is_initiator, session_id) ==
    [m EXCEPT !.state = "response", !.result = result,
              !.resp_is_initiator = is_initiator,
              !.resp_session_id = session_id]

\* [s, result]: result is "Ok", "DuplicatePeerId" or "Panic" (the handler
\* task panicked; s is the state it left behind)
sync_route_info(s, from_peer_id, from_session_id, is_initiator, peer_infos, conn_bitmap, t) ==
    With([get_or_start_session(s, from_peer_id) EXCEPT
            !.sessions[from_peer_id] =
                update_dst_session_id([@ EXCEPT !.rpc_rx_count = @ + 1],
                                      from_session_id)], LAMBDA s2 :
    With(IF peer_infos = {} THEN [result |-> "Ok", db |-> s2.synced_route_info]
         ELSE update_peer_infos(s2.synced_route_info, s2.my_peer_id,
                    from_peer_id, CHOOSE x \in peer_infos : TRUE, t), LAMBDA u :
    IF u.result = "Panic"
    THEN [s |-> [s2 EXCEPT !.synced_route_info = u.db,
                           !.panics = @ \cup {"my peer id is duplicated"}],
          result |-> "Panic"]
    ELSE IF u.result = "DuplicatePeerId"
    THEN [s |-> [s2 EXCEPT !.synced_route_info = u.db],
          result |-> "DuplicatePeerId"]
    ELSE
    With(IF peer_infos = {} THEN s2
         ELSE [s2 EXCEPT !.synced_route_info = u.db,
                         !.sessions[from_peer_id] =
                             update_dst_saved_peer_info_version(@,
                                 CHOOSE x \in peer_infos : TRUE)], LAMBDA s3 :
    With(IF conn_bitmap = {} THEN s3
         ELSE [s3 EXCEPT !.synced_route_info =
                             update_conn_map(@, CHOOSE x \in conn_bitmap : TRUE, t),
                         !.sessions[from_peer_id] =
                             update_dst_saved_conn_bitmap_version(@,
                                 CHOOSE x \in conn_bitmap : TRUE)], LAMBDA s4 :
    With(update_route_table_and_cached_local_conn_bitmap(s4), LAMBDA r :
        IF r.panicked
        THEN [s |-> [r.s EXCEPT !.panics = @ \cup {"update_route_table"}],
              result |-> "Panic"]
        ELSE [s |-> [r.s EXCEPT !.sessions[from_peer_id].dst_is_initiator =
                                    is_initiator],
              result |-> "Ok"])))))

\* a variant of the session task that does not await the call it made
SessionBusy_never(n, session) == FALSE

\* ------------------------------------------------------------------------
\* PeerRouteServiceImpl::sync_route_with_peer (the client side), in the two
\* halves its RPC await separates.
\* ------------------------------------------------------------------------
SessionBusy(n, session) ==
    \E m \in rpcs : /\ m.from = n
                    /\ m.to = session.dst_peer_id
                    /\ m.my_session_id = session.my_session_id

\* [s, request]: up to the call of the RPC
sync_route_with_peer_send(s, dst_peer_id) ==
    LET session == s.sessions[dst_peer_id]
    IN  [s |-> [s EXCEPT !.sessions[dst_peer_id].need_sync_initiator_info = FALSE],
         request |-> SyncRequest(s.my_peer_id, dst_peer_id, session,
                                 build_route_info(s, session),
                                 build_conn_bitmap(s, session))]

\* a variant of the match on the RPC's result whose last arm does nothing
sync_route_with_peer_result_error_dropped(session, m) ==
    IF m.result = "Ok"
    THEN
    With(update_dst_session_id(
            [session EXCEPT !.rpc_tx_count = @ + 1,
                            !.dst_is_initiator = m.resp_is_initiator],
            m.resp_session_id), LAMBDA a :
    With(IF m.peer_infos = {} THEN a
         ELSE update_dst_saved_peer_info_version(a,
                    CHOOSE x \in m.peer_infos : TRUE), LAMBDA b :
        IF m.conn_bitmap = {} THEN b
        ELSE update_dst_saved_conn_bitmap_version(b,
                    CHOOSE x \in m.conn_bitmap : TRUE)))
    ELSE IF m.result = "DuplicatePeerId"
    THEN [session EXCEPT !.task_running = FALSE]
    ELSE session

\* the match on the RPC's result, applied to the session the task holds
sync_route_with_peer_result(session, m) ==
    IF m.result = "Ok"
    THEN
    With(update_dst_session_id(
            [session EXCEPT !.rpc_tx_count = @ + 1,
                            !.dst_is_initiator = m.resp_is_initiator],
            m.resp_session_id), LAMBDA a :
    With(IF m.peer_infos = {} THEN a
         ELSE update_dst_saved_peer_info_version(a,
                    CHOOSE x \in m.peer_infos : TRUE), LAMBDA b :
        IF m.conn_bitmap = {} THEN b
        ELSE update_dst_saved_conn_bitmap_version(b,
                    CHOOSE x \in m.conn_bitmap : TRUE)))
    ELSE IF m.result = "DuplicatePeerId"
    THEN [session EXCEPT !.task_running = FALSE]
    ELSE [session EXCEPT !.need_sync_initiator_info = TRUE]

\* ------------------------------------------------------------------------
\* RouteSessionManager::maintain_sessions: one iteration of its loop, given
\* what list_peers() returned.
\* ------------------------------------------------------------------------
InitiatorCandidates(s, listed) ==
    SelectSeq(SortedSeq(listed),
              LAMBDA x : \/ x \notin DOMAIN s.sessions
                         \/ ~s.sessions[x].dst_is_initiator)

first_candidate(s, candidates) == candidates[1]

\* the peer the election settles on
new_initiator_dst(s, candidates) ==
    LET preferred == {i \in 1..Len(candidates) :
                        get_nat_type(s.route_table, candidates[i])
                            \cap {"NoPat", "OpenInternet"} # {}}
    IN  IF preferred # {}
        THEN candidates[CHOOSE i \in preferred : \A j \in preferred : i <= j]
        ELSE candidates[1]

\* a variant that stops no session
stop_gone_sessions_none(s, listed) == s

\* sessions of peers that left the directly-connected set are stopped
stop_gone_sessions(s, listed) ==
    LET gone == {p \in DOMAIN s.sessions : p \notin listed}
    IN  [s EXCEPT !.sessions = [p \in (DOMAIN s.sessions) \ gone |-> s.sessions[p]],
                  !.cur_dst_peer_id_to_initiate = @ \ gone]

session_kept_never(session) == TRUE

\* the test of the clean-up loop that keeps a session
session_kept(session) ==
    /\ \/ session.dst_is_initiator
       \/ session.we_are_initiator
       \/ session.need_sync_initiator_info
    /\ session.task_running

\* the clean-up loop at the end of an iteration: it removes the sessions (of
\* session_peers, the peers listed when the iteration began) that are not
\* kept, in ascending order, up to the one on which its
\* assert_ne!(Some(*peer_id), cur_dst_peer_id_to_initiate) fails
remove_unkept_sessions(s2, session_peers) ==
    With({p \in session_peers \cap DOMAIN s2.sessions :
            ~session_kept(s2.sessions[p])}, LAMBDA stopped :
    With({p \in stopped : {p} = s2.cur_dst_peer_id_to_initiate}, LAMBDA failed :
    With(IF failed = {} THEN stopped
         ELSE {p \in stopped : \A f \in failed : p <= f}, LAMBDA upto :
    With([s2 EXCEPT !.sessions = [p \in (DOMAIN s2.sessions) \ upto |->
                                        s2.sessions[p]]], LAMBDA s3 :
        IF failed # {}
        THEN [s3 EXCEPT !.election_alive = FALSE,
                        !.panics = @ \cup {"assert_ne"}]
        ELSE s3))))

maintain_sessions_round(s, listed) ==
    With(stop_gone_sessions(s, listed), LAMBDA s1 :
    With(InitiatorCandidates(s1, listed), LAMBDA candidates :
    IF candidates = <<>> THEN s1
    ELSE
    With(new_initiator_dst(s1, candidates), LAMBDA new :
    With(s1.cur_dst_peer_id_to_initiate, LAMBDA cur :
    IF {new} = cur THEN remove_unkept_sessions(s1, DOMAIN s.sessions)
    ELSE
    With(IF cur # {} /\ cur \subseteq DOMAIN s1.sessions
         THEN [s1 EXCEPT !.sessions[CHOOSE x \in cur : TRUE] =
                            update_initiator_flag(@, FALSE)]
         ELSE s1, LAMBDA old_flagged :
    With(get_or_start_session(old_flagged, new), LAMBDA started :
        remove_unkept_sessions(
            [started EXCEPT !.cur_dst_peer_id_to_initiate = {new},
                            !.sessions[new] = update_initiator_flag(@, TRUE)],
            DOMAIN s.sessions)))))))

\* whether the iteration creates a session
round_creates_session(s, listed) ==
    With(stop_gone_sessions(s, listed), LAMBDA s1 :
    With(InitiatorCandidates(s1, listed), LAMBDA candidates :
        /\ candidates # <<>>
        /\ With(new_initiator_dst(s1, candidates), LAMBDA new :
                /\ {new} # s1.cur_dst_peer_id_to_initiate
                /\ new \notin DOMAIN s1.sessions)))

\* ------------------------------------------------------------------------
\* Actions.  Time does not advance in the network specifications: they
\* cover a stretch shorter than UPDATE_PEER_INFO_PERIOD.
\* ------------------------------------------------------------------------
Running == DOMAIN nodes

StoredVersionOfSelf(n) ==
    get_peer_info_version_with_default(nodes[n].synced_route_info, n)

\* turn flips exactly when the step changed the program's state: a step that
\* finds nothing to do (a routine iteration without a change, an election
\* round that keeps its choice) leaves every variable as it was
Tick ==
    turn' = IF <<nodes', rpcs', topo', ctx', now'>> # <<nodes, rpcs, topo, ctx, now>>
            THEN 1 - turn ELSE turn


\* update_my_peer_info_routine: one step of its loop from s.routine_pc.  From
\* the top: update_my_peer_info; when that changed nothing the step runs on
\* through update_my_conn_info (an await that follows a step without effect
\* separates nothing).  After list_peers(): update_my_conn_info, the sync_now
\* broadcast, cost_calculator_need_update, and the sleep.
routine_panicked(s) ==
    [s EXCEPT !.routine_alive = FALSE,
              !.routine_pc = "update_my_peer_info",
              !.panics = @ \cup {"update_route_table"}]

\* the routine from list_peers() to its sleep
update_my_conn_info_and_sleep(s, connected_peers, t) ==
    With(update_my_conn_info(s, connected_peers, t), LAMBDA b :
        IF b.panicked \/ b.s.calc_poisoned THEN routine_panicked(b.s)
        ELSE [b.s EXCEPT !.routine_pc = "update_my_peer_info"])

update_my_peer_info_routine(s, global_ctx, connected_peers, t) ==
    IF s.routine_pc = "update_my_peer_info"
    THEN With(update_my_peer_info(s, global_ctx, t), LAMBDA a :
            IF a.panicked THEN routine_panicked(a.s)
            ELSE IF a.changed
            THEN [a.s EXCEPT !.routine_pc = "update_my_conn_info"]
            ELSE update_my_conn_info_and_sleep(a.s, connected_peers, t))
    ELSE update_my_conn_info_and_sleep(s, connected_peers, t)

\* one step of n's update_my_peer_info_routine task
UpdateMyPeerInfoRoutine(n) ==
    /\ nodes[n].routine_alive
    /\ nodes' = [nodes EXCEPT ![n] =
                    update_my_peer_info_routine(@, ctx[n], topo[n], now)]
    /\ UNCHANGED <<rpcs, topo, ctx, now>>
    /\ Tick

\* one iteration of maintain_sessions
MaintainSessionsReady(n) ==
    /\ nodes[n].election_alive
    /\ round_creates_session(nodes[n], topo[n]) =>
            \A p \in topo[n] : SessionsCreated(nodes[n], p) < MaxSessions

MaintainSessions(n) ==
    /\ MaintainSessionsReady(n)
    /\ nodes' = [nodes EXCEPT ![n] = maintain_sessions_round(@, topo[n])]
    /\ UNCHANGED <<rpcs, topo, ctx, now>>
    /\ Tick

\* session_task: sync_route_with_peer up to the RPC.  Its early returns
\* (no session, nothing to send) change nothing and are not steps.
ClientSyncReady(n, d) ==
    /\ d \in DOMAIN nodes[n].sessions
    /\ nodes[n].sessions[d].task_running
    /\ ~SessionBusy(n, nodes[n].sessions[d])
    /\ sync_needed(nodes[n], nodes[n].sessions[d])
    /\ nodes[n].sessions[d].rpc_tx_count < MaxRpcCount

ClientSync(n, d) ==
    /\ ClientSyncReady(n, d)
    /\ \E r \in {sync_route_with_peer_send(nodes[n], d)} :
           /\ nodes' = [nodes EXCEPT ![n] = r.s]
           /\ rpcs' = rpcs \cup {r.request}
    /\ UNCHANGED <<topo, ctx, now>>
    /\ Tick

\* the server's handler of one call
ServeWithinBounds(m) ==
    /\ m.from \notin DOMAIN nodes[m.to].sessions =>
            SessionsCreated(nodes[m.to], m.from) < MaxSessions
    /\ m.from \in DOMAIN nodes[m.to].sessions =>
            nodes[m.to].sessions[m.from].rpc_rx_count < MaxRpcCount

ServerReady(m) ==
    /\ m \in rpcs
    /\ m.state = "request"
    /\ m.to \in Running
    /\ ServeWithinBounds(m)

ServerSyncRouteInfo(m) ==
    /\ ServerReady(m)
    /\ \E r \in {sync_route_info(nodes[m.to], m.from, m.my_session_id,
                                 m.is_initiator, m.peer_infos, m.conn_bitmap, now)} :
           /\ nodes' = [nodes EXCEPT ![m.to] = r.s]
           /\ rpcs' = (rpcs \ {m}) \cup
                {IF r.result = "Ok"
                 THEN SyncResponse(m, "Ok", r.s.sessions[m.from].we_are_initiator,
                                   r.s.sessions[m.from].my_session_id)
                 ELSE IF r.result = "DuplicatePeerId"
                 THEN SyncResponse(m, "DuplicatePeerId", FALSE, 0)
                 ELSE SyncResponse(m, "Failed", FALSE, 0)}
    /\ UNCHANGED <<topo, ctx, now>>
    /\ Tick

\* session_task from the RPC's return: the match on its result, the 50 ms
\* sleep and update_my_infos.  A task whose session has left the map (or
\* been replaced) holds the last reference to it: its update is not seen
\* and the drop of the session aborts the task at the sleep.
session_task_resume(s, m, global_ctx, connected_peers, t) ==
    IF ~(/\ m.to \in DOMAIN s.sessions
         /\ s.sessions[m.to].my_session_id = m.my_session_id)
    THEN s
    ELSE
    With([s EXCEPT !.sessions[m.to] = sync_route_with_peer_result(@, m)],
         LAMBDA s1 :
    IF m.result = "DuplicatePeerId"
    THEN [s1 EXCEPT !.panics = @ \cup {"duplicate peer id"}]
    ELSE
    With(update_my_infos(s1, global_ctx, connected_peers, t), LAMBDA u :
        IF u.panicked
        THEN [u.s EXCEPT !.sessions[m.to].task_running = FALSE,
                         !.panics = @ \cup {"update_route_table"}]
        ELSE u.s))

ClientRecvReady(m) ==
    /\ m \in rpcs
    /\ m.state = "response"
    /\ m.from \in Running

ClientRecv(m) ==
    /\ ClientRecvReady(m)
    /\ nodes' = [nodes EXCEPT ![m.from] = session_task_resume(@, m,
                        ctx[m.from], topo[m.from], now)]
    /\ rpcs' = rpcs \ {m}
    /\ UNCHANGED <<topo, ctx, now>>
    /\ Tick

\* the environment: the NAT type probe of node n reports another type
\* (global_ctx.get_stun_info_collector().get_stun_info().udp_nat_type)
NatTypes == {0, 1}

CtxChange(n) ==
    /\ StoredVersionOfSelf(n) < MaxVersion
    /\ \E t \in NatTypes \ {ctx[n].udp_nat_type} :
            ctx' = [ctx EXCEPT ![n].udp_nat_type = t]
    /\ UNCHANGED <<nodes, rpcs, topo, now, turn>>

\* the environment: the connection between a and b closes.  list_peers() of
\* each end stops naming the other, and every call in flight between the two
\* ends in an error at its caller.  A link event takes a second of the clock.
HeadRoom ==
    \A n \in Running : \A d \in DOMAIN nodes[n].sessions :
        /\ nodes[n].sessions[d].rpc_tx_count < MaxRpcCount - 1
        /\ nodes[n].sessions[d].rpc_rx_count < MaxRpcCount - 1

RpcError(m) == SyncResponse(m, "Failed", FALSE, 0)

LinkDown(a, b) ==
    /\ now < MaxLinkEvents
    /\ HeadRoom
    /\ b \in topo[a]
    /\ topo' = [topo EXCEPT ![a] = @ \ {b}, ![b] = @ \ {a}]
    /\ rpcs' = {IF {m.from, m.to} = {a, b} THEN RpcError(m) ELSE m : m \in rpcs}
    /\ now' = now + 1
    /\ UNCHANGED <<nodes, ctx, turn>>

\* the environment: a and b connect again
LinkUp(a, b) ==
    /\ now < MaxLinkEvents
    /\ b \notin topo[a]
    /\ topo' = [topo EXCEPT ![a] = @ \cup {b}, ![b] = @ \cup {a}]
    /\ now' = now + 1
    /\ UNCHANGED <<nodes, rpcs, ctx, turn>>

\* session_task: sync_route_with_peer towards a peer that is not connected;
\* the call returns an error
ClientSyncFails(n, d) ==
    /\ ClientSyncReady(n, d)
    /\ d \notin topo[n]
    /\ \E r \in {sync_route_with_peer_send(nodes[n], d)} :
           /\ nodes' = [nodes EXCEPT ![n] = r.s]
           /\ rpcs' = rpcs \cup {RpcError(r.request)}
    /\ UNCHANGED <<topo, ctx, now>>
    /\ Tick

\* PeerRouteServiceImpl::clear_expired_peer: duration_since is Err for a
\* last_update in the future
clear_expired_peer(s, t) ==
    [s EXCEPT !.synced_route_info =
        [peer_infos |-> [p \in {q \in DOMAIN @.peer_infos :
                                ~(t >= @.peer_infos[q].last_update
                                  /\ t - @.peer_infos[q].last_update >
                                        REMOVE_DEAD_PEER_INFO_AFTER)} |->
                            @.peer_infos[p]],
         conn_map |-> [p \in {q \in DOMAIN @.conn_map :
                                q \in DOMAIN @.peer_infos =>
                                    ~(t >= @.peer_infos[q].last_update
                                      /\ t - @.peer_infos[q].last_update >
                                            REMOVE_DEAD_PEER_INFO_AFTER)} |->
                            @.conn_map[p]]]]

\* one iteration of the clear_expired_peer task
ClearExpiredPeer(n) ==
    /\ nodes' = [nodes EXCEPT ![n] = clear_expired_peer(@, now)]
    /\ UNCHANGED <<rpcs, topo, ctx, now>>
    /\ Tick

\* the environment: SystemTime::now() is the wall clock, and it is set
\* forward by more than REMOVE_DEAD_PEER_INFO_AFTER
ClockStep ==
    /\ now = 0
    /\ now' = REMOVE_DEAD_PEER_INFO_AFTER + 1
    /\ UNCHANGED <<nodes, rpcs, topo, ctx, turn>>

\* the environment: the wall clock is set, forward or backward, to one of
\* the times below (SystemTime::now() is not monotonic)
ClockTimes ==
    {0, 1, UPDATE_PEER_INFO_PERIOD, UPDATE_PEER_INFO_PERIOD + 1,
     UPDATE_PEER_INFO_PERIOD + 2, REMOVE_DEAD_PEER_INFO_AFTER + 1}

ClockSet ==
    /\ \A n \in Running : StoredVersionOfSelf(n) <= MaxVersion
    /\ \E t \in ClockTimes \ {now} : now' = t
    /\ UNCHANGED <<nodes, rpcs, topo, ctx, turn>>

\* the PeerRoute of n is dropped: its JoinSet aborts the refresh routine, the
\* election and the expiry task, and the service goes with its last Arc,
\* once no session task holds it across a call.  The RouteSessionManager
\* that start() registered with the RPC layer stays, with its Weak handle.
DropPeerRoute(n) ==
    /\ n \in Running
    /\ \A m \in rpcs : m.from # n
    /\ nodes' = [k \in Running \ {n} |-> nodes[k]]
    /\ UNCHANGED <<rpcs, topo, ctx, now, turn>>

\* the server's handler of one call when service_impl.upgrade() is None
ServerStopped(m) ==
    /\ m \in rpcs
    /\ m.state = "request"
    /\ m.to \notin Running
    /\ rpcs' = (rpcs \ {m}) \cup {SyncResponse(m, "Stopped", FALSE, 0)}
    /\ UNCHANGED <<nodes, topo, ctx, now>>
    /\ Tick

\* ------------------------------------------------------------------------
\* Specifications
\* ------------------------------------------------------------------------
GlobalCtx(n) ==
    [id |-> n, ipv4 |-> {10 + n}, proxy_cidrs |-> <<>>, vpn_portal_cidr |-> <<>>,
     hostname |-> "host", udp_nat_type |-> 0]

InitNet(links) ==
    /\ nodes = [n \in DOMAIN links |-> NewPeerRouteServiceImpl(n)]
    /\ rpcs = {}
    /\ topo = links
    /\ ctx = [n \in DOMAIN links |-> GlobalCtx(n)]
    /\ now = 0
    /\ turn = 0

NextNet ==
    \/ \E n \in Running : UpdateMyPeerInfoRoutine(n)
    \/ \E n \in Running : MaintainSessions(n)
    \/ \E n \in Running : \E d \in DOMAIN nodes[n].sessions : ClientSync(n, d)
    \/ \E m \in rpcs : ServerSyncRouteInfo(m)
    \/ \E m \in rpcs : ClientRecv(m)

\* two nodes, connected before their routes are opened (ospf_route_2node):
\* every task starts from the state PeerRouteServiceImpl::new leaves
PairLinks == [n \in {1, 2} |-> {1, 2} \ {n}]

InitPair == InitNet(PairLinks)

SpecPair == InitPair /\ [][NextNet]_vars

\* the service once update_my_peer_info_routine, the first task start()
\* spawns, has finished its first iteration
first_iteration(n, links) ==
    update_my_infos(NewPeerRouteServiceImpl(n), GlobalCtx(n), links[n], 0).s

InitStarted(links) ==
    /\ nodes = [n \in DOMAIN links |-> first_iteration(n, links)]
    /\ rpcs = {}
    /\ topo = links
    /\ ctx = [n \in DOMAIN links |-> GlobalCtx(n)]
    /\ now = 0
    /\ turn = 0

\* the line 1 - 2 - 3 (ospf_route_3node_disconnect before the drop) from the
\* moment every node has refreshed its own descriptor and adjacency row; the
\* election and the session tasks interleave freely from there
LineNodes == {1, 2, 3}

LineLinks == [n \in LineNodes |-> IF n = 2 THEN {1, 3} ELSE {2}]

InitLine == InitStarted(LineLinks)

SpecLine == InitLine /\ [][NextNet]_vars

\* ------------------------------------------------------------------------
\* State predicates the properties share
\* ------------------------------------------------------------------------
NoPanic == \A n \in Running : nodes[n].panics = {}

\* the next step of n's update_my_peer_info_routine changes n's state: it is
\* past its first await, or its own descriptor or adjacency row is out of
\* date, or the lock it takes is poisoned
RoutineHasWork(n) ==
    LET s == nodes[n]
        db == s.synced_route_info
    IN  /\ s.routine_alive
        /\ \/ s.routine_pc = "update_my_conn_info"
           \/ s.calc_poisoned
           \/ update_my_peer_info_db(db, s.my_peer_id, ctx[n], now).db # db
           \/ update_my_conn_info_db(db, s.my_peer_id, topo[n], now).db # db

\* the next round of n's maintain_sessions changes n's state
ElectionHasWork(n) ==
    /\ nodes[n].election_alive
    /\ maintain_sessions_round(nodes[n], topo[n]) # nodes[n]

\* the session task of n towards d has something to send
ClientHasWork(n, d) ==
    /\ nodes[n].sessions[d].task_running
    /\ sync_needed(nodes[n], nodes[n].sessions[d])

\* nothing is in flight and no task has a step left that changes the state
Quiescent ==
    /\ rpcs = {}
    /\ \A n \in Running :
        /\ \A d \in DOMAIN nodes[n].sessions : ~ClientHasWork(n, d)
        /\ ~ElectionHasWork(n)
        /\ ~RoutineHasWork(n)

\* some task has a step to take that changes the state
CanStep ==
    \/ \E m \in rpcs : ServerReady(m) \/ ClientRecvReady(m)
    \/ \E n \in Running : \E d \in DOMAIN nodes[n].sessions : ClientSyncReady(n, d)
    \/ \E n \in Running : MaintainSessionsReady(n) /\ ElectionHasWork(n)
    \/ \E n \in Running : RoutineHasWork(n)

\* tokio polls every spawned task that is ready, and the peer RPC layer
\* delivers every call and every reply: as long as some task has a step that
\* changes the state, such a step is eventually taken.  This is weak
\* fairness of the next-state relation; Progress states it over turn, so
\* that its enabling condition is the state predicate CanStep.
Progress == CanStep /\ turn' = 1 - turn

FairLine == SpecLine /\ WF_turn(Progress)

\* two nodes that have refreshed their own entries, with NAT type changes at
\* both
NextPairCtx ==
    \/ NextNet
    \/ \E n \in DOMAIN PairLinks : CtxChange(n)

SpecPairCtx == InitStarted(PairLinks) /\ [][NextPairCtx]_vars

FairPairCtx == SpecPairCtx /\ WF_turn(Progress)

\* ------------------------------------------------------------------------
\* One node whose only neighbour is outside the model: the neighbour calls
\* sync_route_info with any descriptors and any bitmap of the sets below and
\* answers the node's own calls with any result.
\* ------------------------------------------------------------------------
OpenLinks == [n \in {1} |-> {2}]

\* the descriptor update_self writes for a node whose context is
\* GlobalCtx(p) with NAT type nt, at version v
Descriptor(p, v, nt) ==
    [update_self_always_bump(NewRoutePeerInfo(0), p,
        [GlobalCtx(p) EXCEPT !.udp_nat_type = nt], 0) EXCEPT !.version = v]

\* the node's own id at a version it has not published, the neighbour's at
\* the versions 1..MaxVersion, and a third id: as a placeholder, at version 1
\* with either NAT type, and at the versions above
InboundDescriptors ==
    {Descriptor(1, MaxVersion, 0)}
        \cup {Descriptor(2, v, 0) : v \in 1..MaxVersion}
        \cup {Descriptor(3, 0, 0)}
        \cup {Descriptor(3, 1, nt) : nt \in NatTypes}
        \cup {Descriptor(3, v, 0) : v \in 2..MaxVersion}

\* Option<Vec<RoutePeerInfo>>: none, one descriptor, or the neighbour's own
\* descriptor before or after one of another id
InboundPeerInfos ==
    {{}} \cup {{<<d>>} : d \in InboundDescriptors}
         \cup {{<<x[1], x[2]>>} :
                    x \in {y \in InboundDescriptors \X InboundDescriptors :
                                /\ y[1].peer_id # y[2].peer_id
                                /\ 2 \in {y[1].peer_id, y[2].peer_id}}}

\* Option<RouteConnBitmap>: none, or the rows of the neighbour and of the
\* third id, connected to each other (byte 6: bits 1 and 2)
InboundBitmaps ==
    {{}} \cup {{[peer_ids |-> <<<<2, 1>>, <<3, 1>>>>, bitmap |-> <<6>>]}}

InboundCalls(n) ==
    {[from |-> f, to |-> n, my_session_id |-> 1, is_initiator |-> i,
      peer_infos |-> pi, conn_bitmap |-> bm,
      state |-> "request", result |-> "", resp_is_initiator |-> FALSE,
      resp_session_id |-> 0] :
        f \in topo[n], i \in BOOLEAN, pi \in InboundPeerInfos,
        bm \in InboundBitmaps}

HandlerResult(n, m) ==
    sync_route_info(nodes[n], m.from, m.my_session_id, m.is_initiator,
                    m.peer_infos, m.conn_bitmap, now)

\* the neighbour calls sync_route_info at n; the reply leaves the model
InboundSyncRouteInfo(n) ==
    /\ \E m \in InboundCalls(n) :
        /\ ServeWithinBounds(m)
        /\ nodes' = [nodes EXCEPT ![n] = HandlerResult(n, m).s]
    /\ UNCHANGED <<rpcs, topo, ctx, now>>
    /\ Tick

\* the neighbour answers a call of the node: Ok, from its session 1, not as
\* an initiator
PeerAnswers(m) ==
    /\ m \in rpcs
    /\ m.state = "request"
    /\ m.to \notin Running
    /\ rpcs' = (rpcs \ {m}) \cup {SyncResponse(m, "Ok", FALSE, 1)}
    /\ UNCHANGED <<nodes, topo, ctx, now>>
    /\ Tick

NextOpen ==
    \/ \E n \in Running : UpdateMyPeerInfoRoutine(n)
    \/ \E n \in Running : MaintainSessions(n)
    \/ \E n \in Running : \E d \in DOMAIN nodes[n].sessions : ClientSync(n, d)
    \/ \E n \in Running : InboundSyncRouteInfo(n)
    \/ \E m \in rpcs : PeerAnswers(m)
    \/ \E m \in rpcs : ClientRecv(m)

SpecOpen == InitStarted(OpenLinks) /\ [][NextOpen]_vars

\* ------------------------------------------------------------------------
\* Three nodes, each connected to the other two, past their first refresh;
\* the NAT type of node 2 changes.  Responses that report success stay in
\* flight (a session task awaits its response, so each session has made at
\* most one call); a response that reports an error is delivered.  Every
\* behaviour is a behaviour of the three nodes under NextNet and CtxChange(2).
\* ------------------------------------------------------------------------
TriLinks == [n \in {1, 2, 3} |-> {1, 2, 3} \ {n}]

NextTri ==
    \/ \E n \in Running : UpdateMyPeerInfoRoutine(n)
    \/ \E n \in Running : MaintainSessions(n)
    \/ \E n \in Running : \E d \in DOMAIN nodes[n].sessions : ClientSync(n, d)
    \/ \E m \in rpcs : ServerSyncRouteInfo(m)
    \/ \E m \in rpcs : m.result # "Ok" /\ ClientRecv(m)
    \/ CtxChange(2)

SpecTri == InitStarted(TriLinks) /\ [][NextTri]_vars

\* ------------------------------------------------------------------------
\* The election of one node whose three neighbours are outside the model.
\* Each neighbour calls sync_route_info, as an initiator or not, with no
\* descriptor or with its own at version 1; the NAT types of the neighbours
\* 2, 3, 4 are Symmetric, OpenInternet (or Symmetric) and PortRestricted (or
\* NoPat).  The node's own session tasks make no call.
\* ------------------------------------------------------------------------
ElectLinks == [n \in {1} |-> {2, 3, 4}]

ElectNatTypes == (2 :> {6}) @@ (3 :> {1, 6}) @@ (4 :> {5, 2})

ElectCalls(n) ==
    {[from |-> f, to |-> n, my_session_id |-> 1, is_initiator |-> i,
      peer_infos |-> pi, conn_bitmap |-> {},
      state |-> "request", result |-> "", resp_is_initiator |-> FALSE,
      resp_session_id |-> 0] :
        f \in topo[n], i \in BOOLEAN,
        pi \in {{}} \cup {{<<Descriptor(p, 1, nt)>>} :
                                p \in topo[n], nt \in UNION Range(ElectNatTypes)}}

\* a neighbour calls sync_route_info at n, once for each session n has for
\* it; the reply leaves the model
ElectSyncRouteInfo(n) ==
    /\ \E m \in ElectCalls(n) :
        /\ \A pi \in m.peer_infos :
                pi[1].peer_id = m.from /\ pi[1].udp_stun_info \in ElectNatTypes[m.from]
        /\ ServeWithinBounds(m)
        /\ m.from \in DOMAIN nodes[n].sessions =>
                nodes[n].sessions[m.from].rpc_rx_count = 0
        /\ nodes' = [nodes EXCEPT ![n] = HandlerResult(n, m).s]
    /\ UNCHANGED <<rpcs, topo, ctx, now>>
    /\ Tick

NextElect ==
    \/ \E n \in Running : UpdateMyPeerInfoRoutine(n)
    \/ \E n \in Running : MaintainSessions(n)
    \/ \E n \in Running : ElectSyncRouteInfo(n)

SpecElect == InitStarted(ElectLinks) /\ [][NextElect]_vars

\* ------------------------------------------------------------------------
\* The refresh of a node's own descriptor: one node past its first refresh,
\* whose NAT type changes and whose wall clock is set to any of ClockTimes,
\* between the iterations of update_my_peer_info_routine.
\* ------------------------------------------------------------------------
NextRefresh ==
    \/ \E n \in Running : UpdateMyPeerInfoRoutine(n)
    \/ \E n \in Running : CtxChange(n)
    \/ ClockSet

SpecRefresh == InitStarted(OpenLinks) /\ [][NextRefresh]_vars

\* ------------------------------------------------------------------------
\* Two nodes with NAT type changes, of which node 2 drops its PeerRoute at
\* any moment at which none of its calls is in flight.
\* ------------------------------------------------------------------------
NextPairStop ==
    \/ NextNet
    \/ \E n \in Running : CtxChange(n)
    \/ DropPeerRoute(2)
    \/ \E m \in rpcs : ServerStopped(m)

SpecPairStop == InitStarted(PairLinks) /\ [][NextPairStop]_vars

\* ------------------------------------------------------------------------
\* The periodic tasks under a clock that runs: one node, past its first
\* refresh, whose neighbour 2 is outside the model.  update_my_peer_info_routine
\* sleeps one second between its iterations; Sleep takes the clock to a later
\* point of TimePoints and runs the iteration that falls there, the
\* iterations of the seconds it passes being those in which update_self
\* finds nothing to do.  clear_expired_peer runs at any point (its task
\* sleeps 60 s), and the neighbour calls at any point, with its own
\* descriptor (a peer that is alive publishes a version by the second after
\* UPDATE_PEER_INFO_PERIOD, which the node has a second later) or with the
\* descriptor of a peer 3 that is never refreshed.
\* ------------------------------------------------------------------------
TimePoints ==
    {1, 60,
     UPDATE_PEER_INFO_PERIOD, UPDATE_PEER_INFO_PERIOD + 1,
     UPDATE_PEER_INFO_PERIOD + 2,
     REMOVE_DEAD_PEER_INFO_AFTER, REMOVE_DEAD_PEER_INFO_AFTER + 1,
     REMOVE_DEAD_PEER_INFO_AFTER + 2,
     2 * UPDATE_PEER_INFO_PERIOD + 1, 2 * UPDATE_PEER_INFO_PERIOD + 2,
     2 * UPDATE_PEER_INFO_PERIOD + 3,
     UPDATE_PEER_INFO_PERIOD + REMOVE_DEAD_PEER_INFO_AFTER + 1,
     UPDATE_PEER_INFO_PERIOD + REMOVE_DEAD_PEER_INFO_AFTER + 2,
     UPDATE_PEER_INFO_PERIOD + REMOVE_DEAD_PEER_INFO_AFTER + 3}

\* the peers whose refreshed descriptors keep reaching the node
AlivePeers == {2}

LastUpdate(n, p) == nodes[n].synced_route_info.peer_infos[p].last_update

Sleep ==
    \E t \in TimePoints :
        /\ t > now
        /\ \A n \in Running :
            /\ ~RoutineHasWork(n)
            /\ nodes[n].routine_alive
            /\ ~update_my_peer_info_db(nodes[n].synced_route_info, n, ctx[n],
                                       t - 1).changed
            /\ \A p \in AlivePeers :
                get_peer_info_version_with_default(nodes[n].synced_route_info, p) >= 1
                    => t - LastUpdate(n, p) <= UPDATE_PEER_INFO_PERIOD + 2
        /\ now' = t
        /\ nodes' = [n \in Running |->
                        update_my_peer_info_routine(nodes[n], ctx[n], topo[n], t)]
        /\ UNCHANGED <<rpcs, topo, ctx, turn>>

TimedCalls(n) ==
    {[from |-> f, to |-> n, my_session_id |-> 1, is_initiator |-> FALSE,
      peer_infos |-> pi, conn_bitmap |-> {},
      state |-> "request", result |-> "", resp_is_initiator |-> FALSE,
      resp_session_id |-> 0] :
        f \in topo[n],
        pi \in {{<<Descriptor(2, v, 0)>>} : v \in 1..MaxVersion}
                    \cup {{<<Descriptor(3, 1, 0)>>}}}

TimedSyncRouteInfo(n) ==
    /\ \E m \in TimedCalls(n) :
        /\ ServeWithinBounds(m)
        /\ nodes' = [nodes EXCEPT ![n] = HandlerResult(n, m).s]
    /\ UNCHANGED <<rpcs, topo, ctx, now>>
    /\ Tick

NextTimed ==
    \/ \E n \in Running : UpdateMyPeerInfoRoutine(n)
    \/ \E n \in Running : CtxChange(n)
    \/ \E n \in Running : TimedSyncRouteInfo(n)
    \/ \E n \in Running : ClearExpiredPeer(n)
    \/ Sleep

SpecTimed == InitStarted(OpenLinks) /\ [][NextTimed]_vars

\* ------------------------------------------------------------------------
\* The descriptor delta: one node, past its first refresh, whose neighbours
\* 2 and 3 are outside the model.  Each calls sync_route_info with its own
\* descriptor or with that of a peer 4, with or without the adjacency rows
\* that link peer 4 to neighbour 2, and answers the calls of the node.
\* ------------------------------------------------------------------------
DeltaLinks == [n \in {1} |-> {2, 3}]

DeltaCalls(n) ==
    {[from |-> f, to |-> n, my_session_id |-> 1, is_initiator |-> FALSE,
      peer_infos |-> pi, conn_bitmap |-> bm,
      state |-> "request", result |-> "", resp_is_initiator |-> FALSE,
      resp_session_id |-> 0] :
        f \in topo[n],
        pi \in {{<<Descriptor(p, 1, 0)>>} : p \in {2, 3, 4}},
        bm \in {{}, {[peer_ids |-> <<<<2, 1>>, <<4, 1>>>>, bitmap |-> <<6>>]}}}

DeltaSyncRouteInfo(n) ==
    /\ \E m \in DeltaCalls(n) :
        /\ ServeWithinBounds(m)
        /\ m.from \in DOMAIN nodes[n].sessions =>
                nodes[n].sessions[m.from].rpc_rx_count < MaxRpcCount - 1
        /\ \E x \in m.peer_infos : x[1].peer_id \in {m.from, 4}
        /\ nodes' = [nodes EXCEPT ![n] = HandlerResult(n, m).s]
    /\ UNCHANGED <<rpcs, topo, ctx, now>>
    /\ Tick

NextDelta ==
    \/ \E n \in Running : \E d \in DOMAIN nodes[n].sessions : ClientSync(n, d)
    \/ \E n \in Running : DeltaSyncRouteInfo(n)
    \/ \E m \in rpcs : PeerAnswers(m)
    \/ \E m \in rpcs : ClientRecv(m)

SpecDelta == InitStarted(DeltaLinks) /\ [][NextDelta]_vars

\* ------------------------------------------------------------------------
\* update_conn_map on its own: one node past its first refresh, to which
\* bitmaps are applied one after another.  A bitmap has one row or two, of
\* the ids 1..4 (the node's own, its neighbour's and two it may not know, or
\* the same id twice), at any version up to MaxVersion, with any bits.
\* ------------------------------------------------------------------------
ConnMapLabels ==
    {<<<<p, v>>>> : p \in {2, 3}, v \in 0..MaxVersion}
        \cup {<<<<x[1], v>>, <<x[2], w>>>> :
                x \in {<<2, 3>>, <<3, 2>>, <<1, 4>>, <<3, 3>>},
                v \in 0..MaxVersion, w \in 1..MaxVersion}

ConnMapBytes(labels) == IF Len(labels) = 1 THEN {0, 1} ELSE {0, 6, 9, 13}

ConnMapBitmaps ==
    UNION {{[peer_ids |-> l, bitmap |-> <<b>>] : b \in ConnMapBytes(l)} :
                l \in ConnMapLabels}

\* a bitmap arrives
ConnMapCall ==
    /\ rpcs = {}
    /\ \E bm \in ConnMapBitmaps :
        rpcs' = {[from |-> 2, to |-> 1, my_session_id |-> 1,
                  is_initiator |-> FALSE, peer_infos |-> {}, conn_bitmap |-> {bm},
                  state |-> "request", result |-> "",
                  resp_is_initiator |-> FALSE, resp_session_id |-> 0]}
    /\ UNCHANGED <<nodes, topo, ctx, now>>
    /\ Tick

\* update_conn_map is called with the bitmap of m
UpdateConnMap(m) ==
    /\ m \in rpcs
    /\ nodes' = [nodes EXCEPT ![m.to].synced_route_info =
                    update_conn_map(@, CHOOSE bm \in m.conn_bitmap : TRUE, now)]
    /\ rpcs' = rpcs \ {m}
    /\ UNCHANGED <<topo, ctx, now>>
    /\ Tick

NextConnMap ==
    \/ ConnMapCall
    \/ \E m \in rpcs : UpdateConnMap(m)

SpecConnMap == InitStarted(OpenLinks) /\ [][NextConnMap]_vars

\* ------------------------------------------------------------------------
\* The expiry sweep beside a handler.  The tasks start() spawns and the RPC
\* handlers run on the worker threads of the runtime: the sweep, which has
\* no await in it, can run between any two statements of a handler.  Here
\* one node serves calls that carry a bitmap in two steps, update_conn_map's
\* first fill_empty_peer_info and the rest, and the sweep may run in between;
\* calls that carry descriptors are served in one step, and the clock moves
\* only while no call is being served.
\* ------------------------------------------------------------------------
\* Some(bitmap): the row of peer 3 alone, or the rows of 2 and 3
RaceBitmaps ==
    {{[peer_ids |-> <<<<3, 1>>>>, bitmap |-> <<1>>]},
     {[peer_ids |-> <<<<2, 1>>, <<3, 1>>>>, bitmap |-> <<6>>]}}

RaceCalls(n) ==
    {[from |-> f, to |-> n, my_session_id |-> 1, is_initiator |-> FALSE,
      peer_infos |-> {}, conn_bitmap |-> bm,
      state |-> "request", result |-> "", resp_is_initiator |-> FALSE,
      resp_session_id |-> 0] : f \in topo[n], bm \in RaceBitmaps}

\* the labels of the bitmap of m
RowLabels(m) ==
    UNION {{bm.peer_ids[i][1] : i \in 1..Len(bm.peer_ids)} : bm \in m.conn_bitmap}

\* sync_route_info from its entry to the end of the first
\* fill_empty_peer_info of update_conn_map
sync_route_info_to_fill(s, m, t) ==
    With([get_or_start_session(s, m.from) EXCEPT
            !.sessions[m.from] =
                update_dst_session_id([@ EXCEPT !.rpc_rx_count = @ + 1],
                                      m.my_session_id)], LAMBDA s2 :
        [s2 EXCEPT !.synced_route_info =
                        fill_empty_peer_info(@, RowLabels(m), t)])

\* the loop of update_conn_map from row peer_idx on: [db, asserted], where
\* asserted tells that assert!(self.peer_infos.contains_key(peer_id)) failed
RECURSIVE update_conn_map_rows(_, _, _, _)
update_conn_map_rows(db, conn_bitmap, peer_idx, t) ==
    IF peer_idx > Len(conn_bitmap.peer_ids) THEN [db |-> db, asserted |-> FALSE]
    ELSE LET peer_id == conn_bitmap.peer_ids[peer_idx][1]
             version == conn_bitmap.peer_ids[peer_idx][2]
             connceted_peers == get_connected_peers(conn_bitmap, peer_idx)
             filled == fill_empty_peer_info(db, connceted_peers, t)
             old == filled.conn_map
             new == IF peer_id \in DOMAIN old /\ version <= old[peer_id].version
                    THEN old
                    ELSE Put(old, peer_id,
                             [peers |-> connceted_peers, version |-> version])
         IN  IF peer_id \notin DOMAIN db.peer_infos
             THEN [db |-> db, asserted |-> TRUE]
             ELSE update_conn_map_rows([filled EXCEPT !.conn_map = new],
                                       conn_bitmap, peer_idx + 1, t)

\* sync_route_info from the loop of update_conn_map to its return
sync_route_info_from_rows(s, m, t) ==
    With(CHOOSE bm \in m.conn_bitmap : TRUE, LAMBDA conn_bitmap :
    With(update_conn_map_rows(s.synced_route_info, conn_bitmap, 1, t), LAMBDA u :
    IF u.asserted
    THEN [s EXCEPT !.synced_route_info = u.db,
                   !.panics = @ \cup {"update_conn_map"}]
    ELSE
    With(update_route_table_and_cached_local_conn_bitmap(
            [s EXCEPT !.synced_route_info = u.db,
                      !.sessions[m.from] =
                          update_dst_saved_conn_bitmap_version(@, conn_bitmap)]),
         LAMBDA r :
        IF r.panicked
        THEN [r.s EXCEPT !.panics = @ \cup {"update_route_table"}]
        ELSE [r.s EXCEPT !.sessions[m.from].dst_is_initiator = m.is_initiator])))

\* a call with a bitmap is received and served up to the loop of
\* update_conn_map
SyncRouteInfoToFill(n) ==
    /\ rpcs = {}
    /\ \E m \in RaceCalls(n) :
        /\ ServeWithinBounds(m)
        /\ nodes' = [nodes EXCEPT ![n] = sync_route_info_to_fill(@, m, now)]
        /\ rpcs' = {[m EXCEPT !.state = "update_conn_map"]}
    /\ UNCHANGED <<topo, ctx, now>>
    /\ Tick

\* the handler of m goes on to its return; the reply leaves the model
SyncRouteInfoFromRows(m) ==
    /\ m \in rpcs
    /\ m.state = "update_conn_map"
    /\ m.from \in DOMAIN nodes[m.to].sessions
    /\ nodes' = [nodes EXCEPT ![m.to] = sync_route_info_from_rows(@, m, now)]
    /\ rpcs' = rpcs \ {m}
    /\ UNCHANGED <<topo, ctx, now>>
    /\ Tick

NextRace ==
    \/ \E n \in Running : UpdateMyPeerInfoRoutine(n)
    \/ \E n \in Running : rpcs = {} /\ TimedSyncRouteInfo(n)
    \/ \E n \in Running : SyncRouteInfoToFill(n)
    \/ \E m \in rpcs : SyncRouteInfoFromRows(m)
    \/ \E n \in Running : ClearExpiredPeer(n)
    \/ rpcs = {} /\ Sleep

SpecRace == InitStarted(OpenLinks) /\ [][NextRace]_vars

\* ------------------------------------------------------------------------
\* Expiry: one node, past its first refresh, whose neighbour 2 is outside the
\* model and calls sync_route_info with its own descriptor or none, and with
\* a bitmap or none; the wall clock is set forward once, and the
\* clear_expired_peer task runs at any moment.
\* ------------------------------------------------------------------------
ExpireCalls(n) ==
    {[from |-> f, to |-> n, my_session_id |-> 1, is_initiator |-> FALSE,
      peer_infos |-> pi, conn_bitmap |-> bm,
      state |-> "request", result |-> "", resp_is_initiator |-> FALSE,
      resp_session_id |-> 0] :
        f \in topo[n], pi \in {{}, {<<Descriptor(2, 1, 0)>>}},
        bm \in InboundBitmaps}

ExpireSyncRouteInfo(n) ==
    /\ \E m \in ExpireCalls(n) :
        /\ ServeWithinBounds(m)
        /\ nodes' = [nodes EXCEPT ![n] = HandlerResult(n, m).s]
    /\ UNCHANGED <<rpcs, topo, ctx, now>>
    /\ Tick

NextExpire ==
    \/ \E n \in Running : UpdateMyPeerInfoRoutine(n)
    \/ \E n \in Running : ExpireSyncRouteInfo(n)
    \/ \E n \in Running : ClearExpiredPeer(n)
    \/ ClockStep

SpecExpire == InitStarted(OpenLinks) /\ [][NextExpire]_vars

\* ------------------------------------------------------------------------
\* update_peer_infos on its own: the database of a node past its first
\* refresh, as it is or after one batch of the neighbour, receives a batch
\* of the neighbour (one of InboundPeerInfos, or one that names a peer twice)
\* and, when update_peer_infos returned Ok, the same batch once more.  Each
\* application runs at the time of the one before or a second later.
\* ------------------------------------------------------------------------
ApplyBatches ==
    UNION InboundPeerInfos
        \cup {<<Descriptor(p, v, 0), Descriptor(p, w, 0)>> :
                    p \in {2, 3}, v \in 0..MaxVersion, w \in 0..MaxVersion}

ApplyDbs ==
    {first_iteration(1, OpenLinks).synced_route_info}
        \cup {update_peer_infos(first_iteration(1, OpenLinks).synced_route_info,
                                1, 2, b, 0).db : b \in ApplyBatches}

InitApply ==
    /\ \E db \in ApplyDbs, b \in ApplyBatches :
        /\ nodes = [n \in {1} |->
                        [first_iteration(n, OpenLinks) EXCEPT !.synced_route_info = db]]
        /\ rpcs = {[from |-> 2, to |-> 1, my_session_id |-> 1,
                    is_initiator |-> FALSE, peer_infos |-> {b}, conn_bitmap |-> {},
                    state |-> "request", result |-> "",
                    resp_is_initiator |-> FALSE, resp_session_id |-> 0]}
    /\ topo = OpenLinks
    /\ ctx = [n \in {1} |-> GlobalCtx(n)]
    /\ now = 0
    /\ turn = 0

\* the batch of m, applied at time t: [result, db]
UpdatePeerInfosResult(m, t) ==
    update_peer_infos(nodes[m.to].synced_route_info, m.to, m.from,
                      CHOOSE b \in m.peer_infos : TRUE, t)

\* update_peer_infos is called with the batch of m
UpdatePeerInfos(m) ==
    /\ m.state = "request"
    /\ \E dt \in {0, 1} :
        /\ now' = now + dt
        /\ nodes' = [nodes EXCEPT ![m.to].synced_route_info =
                        UpdatePeerInfosResult(m, now + dt).db]
        /\ rpcs' = {[m EXCEPT !.state = "applied",
                              !.result = UpdatePeerInfosResult(m, now + dt).result]}
    /\ UNCHANGED <<topo, ctx>>
    /\ Tick

\* update_peer_infos is called once more with the batch it returned Ok for
UpdatePeerInfosAgain(m) ==
    /\ m.state = "applied"
    /\ m.result = "Ok"
    /\ \E dt \in {0, 1} :
        /\ now' = now + dt
        /\ nodes' = [nodes EXCEPT ![m.to].synced_route_info =
                        UpdatePeerInfosResult(m, now + dt).db]
    /\ rpcs' = {[m EXCEPT !.state = "applied twice"]}
    /\ UNCHANGED <<topo, ctx>>
    /\ Tick

NextApply ==
    \/ \E m \in rpcs : UpdatePeerInfos(m)
    \/ \E m \in rpcs : UpdatePeerInfosAgain(m)

SpecApply == InitApply /\ [][NextApply]_vars

\* ------------------------------------------------------------------------
\* The route-table build on its own: one node (D of test_cost_calculator,
\* with A = 1, B = 2, C = 3, D = 4) whose database holds a descriptor for
\* each of four peers (peer 2's a placeholder or not) and any adjacency rows,
\* under one of three cost calculators; update_route_table builds both
\* tables from it.
\* ------------------------------------------------------------------------
BuildPeers == {1, 2, 3, 4}

BuildLocal == 4

\* the calculator of test_cost_calculator
TestCostCalculator ==
    (<<4, 2>> :> 100) @@ (<<4, 3>> :> 1) @@ (<<3, 1>> :> 101) @@
    (<<2, 1>> :> 1) @@ (<<3, 2>> :> 2)

SkewCostCalculator ==
    (<<4, 2>> :> 3) @@ (<<2, 1>> :> 3) @@ (<<4, 3>> :> 2) @@
    (<<3, 2>> :> 1) @@ (<<1, 3>> :> 2)

BuildCostCalculators ==
    {DefaultRouteCostCalculator, TestCostCalculator, SkewCostCalculator}

BuildDbs ==
    {[peer_infos |-> [p \in BuildPeers |->
                        IF p = 2 /\ v2 = 0 THEN NewRoutePeerInfo(0)
                        ELSE Descriptor(p, 1, 0)],
      conn_map |-> [p \in BuildPeers |-> [peers |-> rows[p], version |-> 1]]] :
        v2 \in {0, 1},
        rows \in {f \in [BuildPeers -> SUBSET BuildPeers] :
                    \A p \in BuildPeers : p \notin f[p]}}

InitBuild ==
    /\ \E db \in BuildDbs, calc \in BuildCostCalculators :
        nodes = [n \in {BuildLocal} |->
                    [NewPeerRouteServiceImpl(n) EXCEPT
                        !.synced_route_info = db,
                        !.cost_calculator = calc]]
    /\ rpcs = {}
    /\ topo = [n \in {BuildLocal} |-> {}]
    /\ ctx = [n \in {BuildLocal} |-> GlobalCtx(n)]
    /\ now = 0
    /\ turn = 0

UpdateRouteTable(n) ==
    /\ nodes' = [nodes EXCEPT ![n] = update_route_table(@).s]
    /\ UNCHANGED <<rpcs, topo, ctx, now>>
    /\ Tick

NextBuild == \E n \in Running : UpdateRouteTable(n)

SpecBuild == InitBuild /\ [][NextBuild]_vars

\* The build after expiry: the same node with a descriptor for each of the
\* four peers, whose clear_expired_peer task runs at any moment and whose
\* wall clock is set forward once, past REMOVE_DEAD_PEER_INFO_AFTER.
InitBuildStale ==
    /\ InitBuild
    /\ ~is_placeholder(nodes[BuildLocal].synced_route_info.peer_infos[2])

NextBuildStale ==
    \/ \E n \in Running : UpdateRouteTable(n)
    \/ \E n \in Running : ClearExpiredPeer(n)
    \/ ClockStep

SpecBuildStale == InitBuildStale /\ [][NextBuildStale]_vars

\* ------------------------------------------------------------------------
\* Forwarding over agreed databases: four nodes that hold one and the same
\* database (a descriptor for each of them and, for each pair of peers, no
\* link, a link seen by both ends or a link seen by the lower end only) and
\* one and the same cost calculator; each builds its tables at any moment.
\* ------------------------------------------------------------------------
AgreedRows ==
    {f \in [BuildPeers -> SUBSET BuildPeers] :
        \A p \in BuildPeers :
            /\ p \notin f[p]
            /\ \A q \in f[p] : q < p => p \in f[q]}

AgreedDbs ==
    {[peer_infos |-> [p \in BuildPeers |-> Descriptor(p, 1, 0)],
      conn_map |-> [p \in BuildPeers |-> [peers |-> rows[p], version |-> 1]]] :
        rows \in AgreedRows}

InitAgreed ==
    /\ \E db \in AgreedDbs, calc \in BuildCostCalculators :
        nodes = [n \in BuildPeers |->
                    [NewPeerRouteServiceImpl(n) EXCEPT
                        !.synced_route_info = db,
                        !.cost_calculator = calc]]
    /\ rpcs = {}
    /\ topo = [n \in BuildPeers |-> {}]
    /\ ctx = [n \in BuildPeers |-> GlobalCtx(n)]
    /\ now = 0
    /\ turn = 0

NextAgreed == \E n \in Running : UpdateRouteTable(n)

SpecAgreed == InitAgreed /\ [][NextAgreed]_vars

\* ------------------------------------------------------------------------
\* The indexes of the route table: one node whose database holds its own
\* descriptor and, for each of two more peers, a placeholder or a version-1
\* descriptor with or without an IPv4 address (the same for both) and with
\* up to two CIDR texts (well-formed or not), over any symmetric links.
\* ------------------------------------------------------------------------
IndexPeers == {1, 2, 3}

CidrTexts == [addr : {<<1, 0>>, <<1, 5>>}, len : {{}, {24}, {32}}]

IndexCidrLists ==
    {<<>>} \cup {<<t>> : t \in CidrTexts}
           \cup {<<[addr |-> <<1, 0>>, len |-> {24}], t>> : t \in CidrTexts}

IndexDescriptors(p) ==
    {NewRoutePeerInfo(0)}
        \cup {[Descriptor(p, 1, 0) EXCEPT !.ipv4_addr = ip, !.proxy_cidrs = cl] :
                    ip \in {{}, {12}}, cl \in IndexCidrLists}

IndexDbs ==
    {[peer_infos |-> (1 :> Descriptor(1, 1, 0)) @@ (2 :> d2) @@ (3 :> d3),
      conn_map |-> [p \in IndexPeers |->
                        [peers |-> {q \in IndexPeers \ {p} : {p, q} \in links},
                         version |-> 1]]] :
        d2 \in IndexDescriptors(2), d3 \in IndexDescriptors(3),
        links \in SUBSET {{1, 2}, {1, 3}, {2, 3}}}

InitIndex ==
    /\ \E db \in IndexDbs :
        nodes = [n \in {1} |->
                    [NewPeerRouteServiceImpl(n) EXCEPT !.synced_route_info = db]]
    /\ rpcs = {}
    /\ topo = [n \in {1} |-> {}]
    /\ ctx = [n \in {1} |-> GlobalCtx(n)]
    /\ now = 0
    /\ turn = 0

SpecIndex == InitIndex /\ [][NextBuild]_vars

\* the peers n has a route to
RoutePeers(n) == {r.peer_id : r \in list_routes(nodes[n])}

\* ------------------------------------------------------------------------
\* Links that close.  The tasks of a node run at their own pace (each loop
\* sleeps between its rounds), so the refresh routine and the election of
\* every node get their turn whatever the session tasks do.
\* ------------------------------------------------------------------------
NextChurn ==
    \/ \E n \in Running : UpdateMyPeerInfoRoutine(n)
    \/ \E n \in Running : MaintainSessions(n)
    \/ \E n \in Running : \E d \in topo[n] : ClientSync(n, d)
    \/ \E n \in Running : \E d \in DOMAIN nodes[n].sessions : ClientSyncFails(n, d)
    \/ \E m \in rpcs : ServerSyncRouteInfo(m)
    \/ \E m \in rpcs : ClientRecv(m)

TaskFairness(N) ==
    /\ WF_turn(Progress)
    /\ \A n \in N : WF_vars(UpdateMyPeerInfoRoutine(n))
    /\ \A n \in N : WF_vars(MaintainSessions(n))

\* the line 1 - 2 - 3 converges, then node 3 is dropped
\* (ospf_route_3node_disconnect)
NextLineDrop ==
    \/ NextChurn
    \/ Quiescent /\ LinkDown(2, 3)

SpecLineDrop == InitLine /\ [][NextLineDrop]_vars

FairLineDrop == SpecLineDrop /\ TaskFairness(LineNodes)

\* two nodes whose link closes at any moment (ospf_route_2node)
NextPairDrop ==
    \/ NextChurn
    \/ LinkDown(1, 2)

SpecPairDrop == InitStarted(PairLinks) /\ [][NextPairDrop]_vars

FairPairDrop == SpecPairDrop /\ TaskFairness(DOMAIN PairLinks)

\* two nodes converge, the link is closed, and once node 1 has no route left
\* and has stopped its session the link is established again (peer_reconnect)
NextPairReconnect ==
    \/ NextChurn
    \/ Quiescent /\ LinkDown(1, 2)
    \/ (RoutePeers(1) = {} /\ nodes[1].sessions = EmptyMap) /\ LinkUp(1, 2)

SpecPairReconnect == InitStarted(PairLinks) /\ [][NextPairReconnect]_vars

FairPairReconnect == SpecPairReconnect /\ TaskFairness(DOMAIN PairLinks)

\* two nodes whose link closes while a call of node 2, and no other, is in
\* flight and is established again once the elections have stopped the sessions
NextPairFlap ==
    \/ NextChurn
    \/ (\E m \in rpcs : rpcs = {m} /\ m.from = 2) /\ LinkDown(1, 2)
    \/ (\A n \in Running : nodes[n].sessions = EmptyMap) /\ LinkUp(1, 2)

SpecPairFlap == InitStarted(PairLinks) /\ [][NextPairFlap]_vars

\* ------------------------------------------------------------------------
\* The operations that change the database or rebuild the tables of one
\* node whose neighbour 2 is outside the model: the refresh routine, the
\* calls of the neighbour, the expiry task and set_route_cost_fn, under a
\* clock that runs at the pace of the routine.
\* ------------------------------------------------------------------------
CacheCostCalculators == {DefaultRouteCostCalculator, (<<1, 2>> :> 3)}

\* PeerRoute::set_route_cost_fn: the calculator is stored and
\* update_route_table rebuilds the two tables
set_route_cost_fn(s, cost_fn) ==
    With(update_route_table([s EXCEPT !.cost_calculator = cost_fn]), LAMBDA r :
        IF r.panicked
        THEN [r.s EXCEPT !.panics = @ \cup {"update_route_table"}]
        ELSE r.s)

SetRouteCostFn(n) ==
    /\ \E c \in CacheCostCalculators \ {nodes[n].cost_calculator} :
            nodes' = [nodes EXCEPT ![n] = set_route_cost_fn(@, c)]
    /\ UNCHANGED <<rpcs, topo, ctx, now>>
    /\ Tick

NextCache ==
    \/ \E n \in Running : UpdateMyPeerInfoRoutine(n)
    \/ \E n \in Running : ExpireSyncRouteInfo(n)
    \/ \E n \in Running : ClearExpiredPeer(n)
    \/ \E n \in Running : SetRouteCostFn(n)
    \/ Sleep

SpecCache == InitStarted(OpenLinks) /\ [][NextCache]_vars

\* ------------------------------------------------------------------------
\* Properties
\* ------------------------------------------------------------------------
Session(a, b) == nodes[a].sessions[b]

\* a and b hold sessions to each other
Linked(a, b) ==
    /\ b \in DOMAIN nodes[a].sessions
    /\ a \in DOMAIN nodes[b].sessions

\* the nodes at most k links away from a in the real topology
RECURSIVE within(_, _)
within(a, k) ==
    IF k = 0 THEN {a}
    ELSE LET w == within(a, k - 1) IN w \cup UNION {topo[x] : x \in w}

\* the length of a shortest path from a to b in the real topology
hops(a, b) ==
    CHOOSE k \in 0..Cardinality(Running) :
        /\ b \in within(a, k)
        /\ \A j \in 0..(k - 1) : b \notin within(a, j)

StoredVersion(n, p) == get_peer_info_version_with_default(nodes[n].synced_route_info, p)

KnowsAll(n) == \A p \in Running : StoredVersion(n, p) >= 1

RoutesAll(n) ==
    \A p \in Running \ {n} : \E h \in topo[n] :
        /\ get_next_hop(nodes[n].route_table, p) = {<<h, hops(n, p)>>}
        /\ hops(h, p) = hops(n, p) - 1

Converged == \A n \in Running : KnowsAll(n) /\ RoutesAll(n)

\* C1: on the line 1 - 2 - 3, under fair scheduling, every node's database
\* eventually holds a descriptor of version >= 1 for every node and every
\* node's LeastHop table eventually holds, for every other node, a next hop
\* that starts a minimum-hop path (get_next_hop(3) = 2 at node 1 and
\* get_next_hop(1) = 2 at node 3), and it stays so.
C1_Convergence == <>[]Converged

C1_Witness ==
    /\ Converged
    /\ get_next_hop(nodes[1].route_table, 3) = {<<2, 2>>}
    /\ get_next_hop(nodes[3].route_table, 1) = {<<2, 2>>}
    /\ \E n \in Running : \E d \in DOMAIN nodes[n].sessions : Session(n, d).rpc_tx_count > 0

StoredConnVersion(n, p) ==
    IF p \in DOMAIN nodes[n].synced_route_info.conn_map
    THEN nodes[n].synced_route_info.conn_map[p].version
    ELSE -1

\* what b stores is at least what a stores, for every descriptor a would
\* send to b (version >= 1, not b's own, reachable in a's LeastHop table)
DescriptorsDelivered(a, b) ==
    \A p \in Running \ {b} :
        (/\ StoredVersion(a, p) >= 1
         /\ peer_reachable(nodes[a].route_table, p))
            => StoredVersion(b, p) >= StoredVersion(a, p)

\* every row a's cached bitmap labels is stored at b, at least as new
RowsDelivered(a, b) ==
    \A l \in Range(nodes[a].cached_local_conn_map.peer_ids) :
        StoredConnVersion(b, l[1]) >= l[2]

NothingMissed ==
    \A a \in Running : \A b \in DOMAIN nodes[a].sessions :
        DescriptorsDelivered(a, b) /\ RowsDelivered(a, b)

\* C2: whatever descriptor (p, v), v >= 1, p # b, p reachable in a's LeastHop
\* table, node a holds while it keeps a session to its neighbour b, b
\* eventually stores p with a version >= v, and every row version a's cached
\* bitmap labels is eventually stored at b with a version at least as large.
\* Descriptors change finitely often here (a node's NAT type changes until
\* its version reaches MaxVersion), so this is: from some point on b is never
\* behind a.
C2_NoMissedUpdate == <>[]NothingMissed

\* node 1 has published a second version of its descriptor while an RPC
\* carrying the first was in flight, and node 2 stores the second
C2_Witness ==
    /\ StoredVersion(1, 1) = 2
    /\ StoredVersion(2, 1) = 2
    /\ Session(1, 2).rpc_tx_count >= 2
    /\ NothingMissed

\* a and b list each other as directly-connected peers
Connected(a, b) == b \in topo[a] /\ a \in topo[b]

ExactlyOneInitiator(a, b) ==
    Session(a, b).we_are_initiator # Session(b, a).we_are_initiator

\* C3: once nothing is in flight and no task has a step left that changes
\* the state (the stable state of the election), for every two directly
\* connected nodes that hold sessions to each other exactly one of
\* A.session(B).we_are_initiator and B.session(A).we_are_initiator is true.
C3_ExactlyOneInitiator ==
    Quiescent =>
        \A a \in Running : \A b \in Running \ {a} :
            (Connected(a, b) /\ Linked(a, b)) => ExactlyOneInitiator(a, b)

FlagsAgree(a, b) ==
    Session(a, b).we_are_initiator = Session(b, a).dst_is_initiator

\* C4: once nothing is in flight and no task has a step left that changes
\* the state, for every two connected nodes A and B that hold sessions to
\* each other, A.session(B).we_are_initiator = B.session(A).dst_is_initiator
\* (and the same with A and B exchanged).
C4_InitiatorFlagAgreement ==
    Quiescent =>
        \A a \in Running : \A b \in Running \ {a} :
            (Connected(a, b) /\ Linked(a, b)) => FlagsAgree(a, b)

\* C5: two nodes connected to each other, no churn; as long as no RPC has
\* failed (an RPC fails only when the task that handles it panics), each
\* node's session to the other has rpc_tx_count <= 2 and rpc_rx_count <= 2,
\* in every reachable state.
C5_BoundedHandshake ==
    NoPanic =>
        \A n \in Running : \A d \in DOMAIN nodes[n].sessions :
            /\ Session(n, d).rpc_tx_count <= 2
            /\ Session(n, d).rpc_rx_count <= 2

\* both counters of one session have reached two without any failure
C5_Witness ==
    /\ NoPanic
    /\ \E n \in Running : \E d \in DOMAIN nodes[n].sessions :
            /\ Session(n, d).rpc_tx_count = 2
            /\ Session(n, d).rpc_rx_count = 2

\* the session task of n towards d is in the idle branch of
\* sync_route_with_peer: nothing in flight, an empty descriptor delta, no
\* bitmap delta, need_sync_initiator_info false
ClientIdle(n, d) ==
    /\ ~SessionBusy(n, Session(n, d))
    /\ build_route_info(nodes[n], Session(n, d)) = {}
    /\ build_conn_bitmap(nodes[n], Session(n, d)) = {}
    /\ ~Session(n, d).need_sync_initiator_info

ClientsIdle ==
    \A n \in Running : \A d \in DOMAIN nodes[n].sessions : ClientIdle(n, d)

\* C6: two connected nodes whose NAT types change finitely often and whose
\* RPCs succeed; under fair scheduling, once the descriptors have stopped
\* changing every session's client task eventually reaches the idle branch
\* (empty descriptor delta, no bitmap delta, need_sync_initiator_info false)
\* and stays in it: from some point on no sync_route_info RPC is issued.
C6_Quiescence == <>[]ClientsIdle

\* both sessions have sent, a descriptor has reached its last version, and
\* every client task is idle
C6_Witness ==
    /\ ClientsIdle
    /\ \A n \in Running : \A d \in topo[n] :
            d \in DOMAIN nodes[n].sessions /\ Session(n, d).rpc_tx_count >= 1
    /\ \E n \in Running : StoredVersionOfSelf(n) = MaxVersion

\* C7: in every step, at every node, the stored version of every peer id
\* does not decrease, and a stored descriptor that changes is replaced by one
\* of a strictly greater version.
C7_VersionMonotonic ==
    [][\A n \in Running :
        \A p \in DOMAIN nodes[n].synced_route_info.peer_infos :
            p \in DOMAIN nodes'[n].synced_route_info.peer_infos =>
                /\ nodes'[n].synced_route_info.peer_infos[p].version >=
                        nodes[n].synced_route_info.peer_infos[p].version
                /\ nodes'[n].synced_route_info.peer_infos[p] #
                        nodes[n].synced_route_info.peer_infos[p] =>
                    nodes'[n].synced_route_info.peer_infos[p].version >
                        nodes[n].synced_route_info.peer_infos[p].version]_vars

\* the node stores the third id at its highest version and has handled as
\* many calls as the bound allows: descriptors of lower and equal versions
\* have been offered to a database that held a newer one
C7_Witness ==
    /\ StoredVersion(1, 3) = MaxVersion
    /\ 2 \in DOMAIN nodes[1].sessions
    /\ Session(1, 2).rpc_rx_count = MaxRpcCount

NoPlaceholder(batch) == \A i \in 1..Len(batch) : batch[i].version # 0

TableHasNoPlaceholder(n, table) ==
    /\ \A p \in DOMAIN table.peer_infos : table.peer_infos[p].version # 0
    /\ \A p \in (DOMAIN table.next_hop_map) \ {n} : p \in DOMAIN table.peer_infos

\* C8: in every reachable state, at every node: no descriptor delta built
\* for a session and no delta in flight holds a descriptor of version 0;
\* neither route table holds one in its peer_infos, and every destination of
\* its next_hop_map other than the node itself has a descriptor there; every
\* route of list_routes() is the route of a stored descriptor of version >= 1.
C8_PlaceholdersStayLocal ==
    \A n \in Running :
        /\ \A d \in DOMAIN nodes[n].sessions :
                \A batch \in build_route_info(nodes[n], Session(n, d)) :
                    NoPlaceholder(batch)
        /\ \A m \in rpcs : m.from = n =>
                \A batch \in m.peer_infos : NoPlaceholder(batch)
        /\ TableHasNoPlaceholder(n, nodes[n].route_table)
        /\ TableHasNoPlaceholder(n, nodes[n].route_table_with_cost)
        /\ \A r \in list_routes(nodes[n]) : StoredVersion(n, r.peer_id) >= 1

\* the database holds a placeholder for the third id that the neighbour's
\* row names as connected, the neighbour is routed to, and a delta was sent
C8_Witness ==
    /\ 3 \in DOMAIN nodes[1].synced_route_info.peer_infos
    /\ StoredVersion(1, 3) = 0
    /\ is_peer_bidirectly_connected(nodes[1].synced_route_info, 2, 3)
    /\ list_routes(nodes[1]) # {}
    /\ \E m \in rpcs : m.from = 1 /\ m.peer_infos # {}

\* C9: with distinct peer ids and no restart, under every interleaving and
\* delay of the sync calls, no sync_route_info call answers DuplicatePeerId
\* and no node reaches a fatal abort (the handler's "my peer id is
\* duplicated", the caller's "duplicate peer id").
C9_NoDuplicatePeerId ==
    /\ NoPanic
    /\ \A m \in rpcs : m.result # "DuplicatePeerId"

\* descriptor i of the batch of call m is the caller's own, at a version
\* below the one n stores for the caller
Regressed(n, m, i) ==
    \E batch \in m.peer_infos :
        /\ i \in 1..Len(batch)
        /\ batch[i].peer_id = m.from
        /\ batch[i].version < StoredVersion(n, m.from)

\* descriptor i of the batch of call m carries n's id at a version above
\* the one n stores for itself
ClaimsMyId(n, m, i) ==
    \E batch \in m.peer_infos :
        /\ i \in 1..Len(batch)
        /\ batch[i].peer_id = n
        /\ batch[i].version > StoredVersion(n, n)

Offending(n, m) == \E i \in 1..2 : Regressed(n, m, i)

DbUntouched(n, m) ==
    HandlerResult(n, m).s.synced_route_info = nodes[n].synced_route_info

\* C10 as stated: whenever a call's batch holds a descriptor of the caller
\* at a version below the stored one, sync_route_info returns
\* DuplicatePeerId and the descriptor map and the adjacency map are as
\* before the call.
C10_AsStated ==
    \A n \in Running : \A m \in InboundCalls(n) :
        Offending(n, m) =>
            /\ HandlerResult(n, m).result = "DuplicatePeerId"
            /\ DbUntouched(n, m)

\* C10, amended: whenever a call's batch holds a descriptor of the caller at
\* a version below the stored one, the descriptor map and the adjacency map
\* are as before the call; sync_route_info returns DuplicatePeerId unless a
\* descriptor earlier in the batch carries the receiver's own id at a version
\* above the stored one, in which case the handler panics.
C10_RejectedBatchLeavesDb ==
    \A n \in Running : \A m \in InboundCalls(n) :
        Offending(n, m) =>
            /\ DbUntouched(n, m)
            /\ HandlerResult(n, m).result =
                    IF \E i \in 1..2 : \E j \in 1..(i - 1) :
                            /\ Regressed(n, m, i)
                            /\ ClaimsMyId(n, m, j)
                            /\ \A k \in 1..(j - 1) : ~Regressed(n, m, k)
                    THEN "Panic"
                    ELSE "DuplicatePeerId"

\* the node stores the neighbour at its highest version, has handled as many
\* calls as the bound allows, and a call that carries a new descriptor of the
\* third id, then the neighbour's at a lower version, and a bitmap, is rejected
C10_Witness ==
    /\ StoredVersion(1, 2) = MaxVersion
    /\ StoredVersion(1, 3) < MaxVersion
    /\ Session(1, 2).rpc_rx_count = MaxRpcCount
    /\ \E m \in InboundCalls(1) :
            /\ m.peer_infos = {<<Descriptor(3, MaxVersion, 0), Descriptor(2, 1, 0)>>}
            /\ m.conn_bitmap # {}
            /\ HandlerResult(1, m).result = "DuplicatePeerId"
            /\ DbUntouched(1, m)

C12_SessionTeardown ==
    /\ (2 \notin topo[1]) ~> [](nodes[1].sessions = EmptyMap)
    /\ (1 \notin topo[2]) ~> [](nodes[2].sessions = EmptyMap)

\* the link is closed, node 1 had created a session for node 2 and had
\* exchanged calls over it, and its session map is empty
C12_Witness ==
    /\ 2 \notin topo[1]
    /\ SessionsCreated(nodes[1], 2) >= 1
    /\ StoredVersion(1, 2) >= 1
    /\ nodes[1].sessions = EmptyMap

\* the link between nodes 1 and 2 has been closed and established again
Reconnected == now = MaxLinkEvents /\ 2 \in topo[1]

LivePeers(db) == {p \in DOMAIN db.peer_infos : db.peer_infos[p].version >= 1}

LiveEdges(db) ==
    {e \in LivePeers(db) \X LivePeers(db) :
        e[1] \in DOMAIN db.conn_map /\ e[2] \in db.conn_map[e[1]].peers}

\* the totals one more edge offers for p, given the totals d
Offers(edges, calc, d, p) ==
    {d[a] + calculate_cost(calc, a, p) : a \in {x \in DOMAIN d : <<x, p>> \in edges}}

RECURSIVE Relax(_, _, _, _, _)
\* k rounds of relaxation (Bellman-Ford): the least total of a path of at
\* most k edges
Relax(peers, edges, calc, d, k) ==
    IF k = 0 THEN d
    ELSE Relax(peers, edges, calc,
               [p \in {q \in peers : q \in DOMAIN d \/ Offers(edges, calc, d, q) # {}} |->
                    MinOf(Offers(edges, calc, d, p) \cup {d[x] : x \in {p} \cap DOMAIN d})],
               k - 1)

\* the least total edge weight of a directed path from src to each peer it
\* reaches
LeastTotal(db, calc, src) ==
    Relax(LivePeers(db), LiveEdges(db), calc, [p \in {src} |-> 0],
          Cardinality(LivePeers(db)))

LeastCostCorrect(s, table, dist) ==
    \A d \in (DOMAIN s.synced_route_info.peer_infos) \ {s.my_peer_id} :
        /\ d \in DOMAIN table.next_hop_map <=> d \in DOMAIN dist
        /\ d \in DOMAIN table.next_hop_map =>
            /\ table.next_hop_map[d][2] = dist[d]
            /\ <<s.my_peer_id, table.next_hop_map[d][1]>> \in
                    LiveEdges(s.synced_route_info)
            /\ calculate_cost(s.cost_calculator, s.my_peer_id,
                              table.next_hop_map[d][1])
                + LeastTotal(s.synced_route_info, s.cost_calculator,
                             table.next_hop_map[d][1])[d] = dist[d]

\* C14: after a LeastCost build, each destination d other than the local
\* node is in next_hop_map iff a directed path from the local node to d
\* exists among the peers with a descriptor of version >= 1; its recorded
\* cost is the least total edge weight over those paths; its recorded next
\* hop is the second node of a path of that total.
C14_LeastCost ==
    [][\A n \in Running :
        LeastCostCorrect(nodes'[n], nodes'[n].route_table_with_cost,
            LeastTotal(nodes'[n].synced_route_info, nodes'[n].cost_calculator, n))]_vars

\* the graph and the calculator of test_cost_calculator: D's LeastCost next
\* hop to A is C, at cost 1 + 2 + 1
C14_Witness ==
    /\ nodes[4].cost_calculator = TestCostCalculator
    /\ \A p \in BuildPeers : StoredVersion(4, p) = 1
    /\ LiveEdges(nodes[4].synced_route_info) =
            {<<1, 2>>, <<2, 1>>, <<1, 3>>, <<3, 1>>, <<4, 2>>, <<2, 4>>,
             <<4, 3>>, <<3, 4>>, <<2, 3>>, <<3, 2>>}
    /\ get_next_hop(nodes[4].route_table_with_cost, 1) = {<<3, 4>>}

RECURSIVE Walk(_, _, _, _, _)
\* the least total of a walk of exactly k edges from the peers of d to each
\* peer such a walk ends at
Walk(peers, edges, calc, d, k) ==
    IF k = 0 THEN d
    ELSE Walk(peers, edges, calc,
              [p \in {q \in peers : Offers(edges, calc, d, q) # {}} |->
                    MinOf(Offers(edges, calc, d, p))],
              k - 1)

\* the least number of edges of a directed path from src to each peer it
\* reaches
HopCount(db, src) == LeastTotal(db, DefaultRouteCostCalculator, src)

\* the least summed cost of a path of exactly k edges from src to each peer
\* such a path ends at.  A walk of H edges to a peer H hops away repeats no
\* node, so for k = H these are the simple H-hop paths.
LeastOfHops(db, calc, src, k) ==
    Walk(LivePeers(db), LiveEdges(db), calc, [p \in {src} |-> 0], k)

LeastHopCorrect(s, table, H) ==
    \A d \in (DOMAIN s.synced_route_info.peer_infos) \ {s.my_peer_id} :
        /\ d \in DOMAIN table.next_hop_map <=> d \in DOMAIN H
        /\ d \in DOMAIN table.next_hop_map =>
            /\ table.next_hop_map[d][2] = H[d]
            /\ <<s.my_peer_id, table.next_hop_map[d][1]>> \in
                    LiveEdges(s.synced_route_info)
            /\ d \in DOMAIN LeastOfHops(s.synced_route_info, s.cost_calculator,
                                         table.next_hop_map[d][1], H[d] - 1)
            /\ calculate_cost(s.cost_calculator, s.my_peer_id,
                              table.next_hop_map[d][1])
                + LeastOfHops(s.synced_route_info, s.cost_calculator,
                              table.next_hop_map[d][1], H[d] - 1)[d]
                = LeastOfHops(s.synced_route_info, s.cost_calculator,
                              s.my_peer_id, H[d])[d]

\* C15: after a LeastHop build, each destination d other than the local
\* node that a directed path reaches is recorded with the least hop count H
\* as its cost, and with a next hop that is the second node of an H-hop
\* path whose summed cost is least among the H-hop paths to d.
C15_LeastHop ==
    [][\A n \in Running :
        LeastHopCorrect(nodes'[n], nodes'[n].route_table,
                        HopCount(nodes'[n].synced_route_info, n))]_vars

\* the graph and the calculator of test_cost_calculator: D's LeastHop next
\* hop to A is B (D -> B -> A costs 101, D -> C -> A costs 102), and the
\* recorded cost is the hop count 2
C15_Witness ==
    /\ nodes[4].cost_calculator = TestCostCalculator
    /\ \A p \in BuildPeers : StoredVersion(4, p) = 1
    /\ LiveEdges(nodes[4].synced_route_info) =
            {<<1, 2>>, <<2, 1>>, <<1, 3>>, <<3, 1>>, <<4, 2>>, <<2, 4>>,
             <<4, 3>>, <<3, 4>>, <<2, 3>>, <<3, 2>>}
    /\ get_next_hop(nodes[4].route_table, 1) = {<<2, 2>>}

\* the candidates of an election round of n: the listed peers whose session,
\* if there is one, does not have dst_is_initiator set
Candidates(n) ==
    {p \in topo[n] : p \in DOMAIN nodes[n].sessions =>
                        ~nodes[n].sessions[p].dst_is_initiator}

\* the candidates whose NAT type the route table knows to be NoPat or
\* OpenInternet
PreferredCandidates(n) ==
    {p \in Candidates(n) :
        /\ p \in DOMAIN nodes[n].route_table.peer_infos
        /\ NatTypeFromI32(nodes[n].route_table.peer_infos[p].udp_stun_info)
                \in {"NoPat", "OpenInternet"}}

\* C16: an election round with a non-empty candidate list settles on the
\* least candidate whose NAT type is NoPat or OpenInternet when there is
\* one, and on the least candidate otherwise.
C16_NatPreferringElection ==
    [][\A n \in Running :
        (MaintainSessions(n) /\ Candidates(n) # {}) =>
            nodes'[n].cur_dst_peer_id_to_initiate =
                {IF PreferredCandidates(n) # {}
                 THEN MinOf(PreferredCandidates(n))
                 ELSE MinOf(Candidates(n))}]_vars

\* three candidates of NAT types Symmetric, OpenInternet and PortRestricted:
\* the election has settled on the OpenInternet one
C16_Witness ==
    /\ Candidates(1) = {2, 3, 4}
    /\ get_nat_type(nodes[1].route_table, 2) = {"Symmetric"}
    /\ get_nat_type(nodes[1].route_table, 3) = {"OpenInternet"}
    /\ get_nat_type(nodes[1].route_table, 4) = {"PortRestricted"}
    /\ nodes[1].cur_dst_peer_id_to_initiate = {3}
    /\ 3 \in DOMAIN nodes[1].sessions
    /\ nodes[1].sessions[3].we_are_initiator

IndexConsistent(db, table) ==
    /\ \A a \in DOMAIN table.ipv4_peer_id_map :
            /\ table.ipv4_peer_id_map[a] \in DOMAIN table.next_hop_map
            /\ a \in db.peer_infos[table.ipv4_peer_id_map[a]].ipv4_addr
    /\ \A c \in DOMAIN table.cidr_peer_id_map :
            /\ table.cidr_peer_id_map[c] \in DOMAIN table.next_hop_map
            /\ \E t \in Range(db.peer_infos[table.cidr_peer_id_map[c]].proxy_cidrs) :
                    c \in parse_cidr(t)
    /\ \A p \in (DOMAIN table.next_hop_map) \cap LivePeers(db) :
            /\ db.peer_infos[p].ipv4_addr \subseteq DOMAIN table.ipv4_peer_id_map
            /\ \A t \in Range(db.peer_infos[p].proxy_cidrs) :
                    /\ parse_cidr(t) # {}
                    /\ parse_cidr(t) \subseteq DOMAIN table.cidr_peer_id_map

\* C17: after a route-table build that ran to its end, in both tables: an
\* address or a CIDR of an index maps to a peer of next_hop_map that carries
\* it, and every peer of next_hop_map with a descriptor of version >= 1 has
\* its address and each of its CIDRs in the index.
C17_IndexConsistency ==
    \A n \in Running :
        ~nodes[n].calc_poisoned =>
            /\ IndexConsistent(nodes[n].synced_route_info, nodes[n].route_table)
            /\ IndexConsistent(nodes[n].synced_route_info,
                               nodes[n].route_table_with_cost)

\* a build that indexed the address and the CIDR of the reachable peer 2 and
\* nothing of the unreachable peer 3, which carries both
C17_Witness ==
    /\ DOMAIN nodes[1].route_table.next_hop_map = {1, 2}
    /\ StoredVersion(1, 3) = 1
    /\ nodes[1].synced_route_info.peer_infos[3].ipv4_addr = {12}
    /\ nodes[1].synced_route_info.peer_infos[3].proxy_cidrs =
            <<[addr |-> <<1, 0>>, len |-> {24}]>>
    /\ nodes[1].route_table.ipv4_peer_id_map = (11 :> 1) @@ (12 :> 2)
    /\ nodes[1].route_table.cidr_peer_id_map = ([addr |-> <<1, 5>>, len |-> 32] :> 2)

TablesEmpty(table) ==
    /\ table.next_hop_map = EmptyMap
    /\ table.ipv4_peer_id_map = EmptyMap
    /\ table.cidr_peer_id_map = EmptyMap

\* C18: when a call of sync_route_info has rebuilt the tables from a
\* database without a descriptor of version >= 1, next_hop_map,
\* ipv4_peer_id_map and cidr_peer_id_map of both tables are empty.
C18_EmptyDbBuild ==
    [][\A n \in Running :
        (ExpireSyncRouteInfo(n) /\ LivePeers(nodes'[n].synced_route_info) = {}) =>
            /\ TablesEmpty(nodes'[n].route_table)
            /\ TablesEmpty(nodes'[n].route_table_with_cost)]_vars

\* C19: applying a batch that update_peer_infos returned Ok for a second
\* time, from the same peer at the same node, leaves every stored descriptor
\* (version, content and last_update) and every adjacency record as the
\* first application left them.
C19_Idempotence ==
    [][\A m \in rpcs :
        UpdatePeerInfosAgain(m) =>
            nodes'[m.to].synced_route_info = nodes[m.to].synced_route_info]_vars

\* a batch that brought peer 3 to a higher version, at the first second, has
\* been applied again at the next second
C19_Witness ==
    /\ \E m \in rpcs :
        /\ m.state = "applied twice"
        /\ \E b \in m.peer_infos : \E i \in 1..Len(b) :
                b[i].peer_id = 3 /\ b[i].version = MaxVersion
    /\ now = 2
    /\ StoredVersion(1, 3) = MaxVersion
    /\ nodes[1].synced_route_info.peer_infos[3].last_update = 1

\* row i of the bitmap bm decodes to the adjacency set the database db
\* stores for its label, at the version of the label
RowMatches(db, bm, i) ==
    /\ bm.peer_ids[i][1] \in DOMAIN db.conn_map
    /\ get_connected_peers(bm, i) = db.conn_map[bm.peer_ids[i][1]].peers
    /\ bm.peer_ids[i][2] = db.conn_map[bm.peer_ids[i][1]].version

\* the same, for the peers of the stored set that have a row of their own
RowMatchesStored(db, bm, i) ==
    /\ bm.peer_ids[i][1] \in DOMAIN db.conn_map
    /\ get_connected_peers(bm, i) =
            db.conn_map[bm.peer_ids[i][1]].peers \cap DOMAIN db.conn_map
    /\ bm.peer_ids[i][2] = db.conn_map[bm.peer_ids[i][1]].version

\* what update_conn_map makes of an empty database holds, for the label of
\* row i, the set the row decodes to, at the version of the label
RowReproduced(bm, i) ==
    update_conn_map(NewSyncedRouteInfo, bm, now).conn_map[bm.peer_ids[i][1]] =
        [peers |-> get_connected_peers(bm, i), version |-> bm.peer_ids[i][2]]

\* the cached bitmap of n is the one its database encodes to
CacheFresh(n) ==
    nodes[n].cached_local_conn_map = build_cached_local_conn_map(nodes[n])

\* every peer a stored adjacency set names has a row of its own
RowsClosed(db) ==
    \A p \in DOMAIN db.conn_map : db.conn_map[p].peers \subseteq DOMAIN db.conn_map

OwnDescriptor(n) ==
    IF n \in DOMAIN nodes[n].synced_route_info.peer_infos
    THEN nodes[n].synced_route_info.peer_infos[n]
    ELSE NewRoutePeerInfo(now)

\* the descriptor d names n and carries what the context of n holds
MatchesContext(n, d) ==
    /\ d.peer_id = n
    /\ d.inst_id = ctx[n].id
    /\ d.cost = 0
    /\ d.ipv4_addr = ctx[n].ipv4
    /\ d.proxy_cidrs = cidr_strings(ctx[n])
    /\ d.hostname = {ctx[n].hostname}
    /\ d.udp_stun_info = ctx[n].udp_nat_type

\* the step is update_my_peer_info of n, run to its end
RefreshedSelf(n) ==
    /\ UpdateMyPeerInfoRoutine(n)
    /\ nodes[n].routine_pc = "update_my_peer_info"
    /\ nodes'[n].routine_alive

\* what the claim states of such a step, given when the version is due
SelfRefreshCorrect(n, due) ==
    /\ n \in DOMAIN nodes'[n].synced_route_info.peer_infos
    /\ MatchesContext(n, nodes'[n].synced_route_info.peer_infos[n])
    /\ due =>
        /\ nodes'[n].synced_route_info.peer_infos[n].version =
                OwnDescriptor(n).version + 1
        /\ nodes'[n].synced_route_info.peer_infos[n].last_update = now
        /\ nodes'[n].routine_pc = "update_my_conn_info"
    /\ ~due =>
        /\ nodes'[n].synced_route_info.peer_infos[n] = OwnDescriptor(n)
        /\ nodes'[n].routine_pc = "update_my_peer_info"

\* C21 (as stated): update_my_peer_info leaves a descriptor that names the
\* node and equals its context; the version rises by one and last_update
\* becomes now iff a content field changed or last_update is more than
\* UPDATE_PEER_INFO_PERIOD old, else the record is unchanged; it returns
\* true (the routine goes on to its next await) iff the version rose.
C21_AsStated ==
    [][\A n \in Running :
        RefreshedSelf(n) =>
            SelfRefreshCorrect(n,
                \/ ~MatchesContext(n, OwnDescriptor(n))
                \/ now - OwnDescriptor(n).last_update > UPDATE_PEER_INFO_PERIOD)]_vars

\* C21: the same, the version being due also when last_update lies in the
\* future of the clock (SystemTime::elapsed() is Err).
C21_SelfRefresh ==
    [][\A n \in Running :
        RefreshedSelf(n) =>
            SelfRefreshCorrect(n,
                \/ ~MatchesContext(n, OwnDescriptor(n))
                \/ now - OwnDescriptor(n).last_update > UPDATE_PEER_INFO_PERIOD
                \/ OwnDescriptor(n).last_update > now)]_vars

\* the descriptor was refreshed at a time the clock has since been set
\* behind, and the next refresh raised its version at the earlier time
C21_Witness ==
    /\ now = 0
    /\ StoredVersion(1, 1) = 3
    /\ nodes[1].synced_route_info.peer_infos[1].last_update = 0
    /\ MatchesContext(1, nodes[1].synced_route_info.peer_infos[1])

\* the adjacency row n stores for itself, or the one or_insert puts there
OwnRow(n) ==
    IF n \in DOMAIN nodes[n].synced_route_info.conn_map
    THEN nodes[n].synced_route_info.conn_map[n]
    ELSE [peers |-> {}, version |-> 0]

\* check_route_sanity of n against every node: the row n stores for p is
\* what the peer map of p lists, and the descriptor n stores for p names p
AdjacencyAgrees(n) ==
    \A p \in Running :
        /\ p \in DOMAIN nodes[n].synced_route_info.conn_map
        /\ nodes[n].synced_route_info.conn_map[p].peers = topo[p]
        /\ p \in DOMAIN nodes[n].synced_route_info.peer_infos
        /\ nodes[n].synced_route_info.peer_infos[p].peer_id = p

\* the step runs update_my_conn_info of n to its end
RefreshedNeighbors(n) ==
    /\ UpdateMyPeerInfoRoutine(n)
    /\ nodes'[n].routine_alive
    /\ nodes'[n].routine_pc = "update_my_peer_info"

\* the local row is replaced by what the peer map lists, and the version of
\* the row rises, by one, iff the listed set differs from the stored one
NeighborsRefreshCorrect(n) ==
    /\ n \in DOMAIN nodes'[n].synced_route_info.conn_map
    /\ nodes'[n].synced_route_info.conn_map[n].peers = topo[n]
    /\ nodes'[n].synced_route_info.conn_map[n].version =
            IF topo[n] # OwnRow(n).peers
            THEN OwnRow(n).version + 1 ELSE OwnRow(n).version
    /\ update_my_conn_info(nodes[n], topo[n], now).changed
            <=> topo[n] # OwnRow(n).peers

\* C22: once the two nodes stay connected, eventually and from then on
\* every node stores, for every node p, the adjacency set the peer map of p
\* lists and a descriptor whose peer_id is p; and every update_my_conn_info
\* leaves the local row equal to the listed set, raises its version iff the
\* listed set differs from the stored one, and returns true iff it did.
C22_AdjacencyAgreement ==
    /\ <>[](topo = PairLinks) => <>[](\A n \in Running : AdjacencyAgrees(n))
    /\ [][\A n \in Running :
            RefreshedNeighbors(n) => NeighborsRefreshCorrect(n)]_vars

\* after the link was closed and established again, both nodes agree with
\* the peer maps, node 1 having replaced its own row twice
C22_Witness ==
    /\ Reconnected
    /\ \A n \in Running : AdjacencyAgrees(n)
    /\ nodes[1].synced_route_info.conn_map[1].version = 3
    /\ Quiescent

\* the sync_route_info calls of n towards d that have not returned to n
CallsInFlight(n, d) == {m \in rpcs : m.from = n /\ m.to = d}

C24_StoppedHandling ==
    [][\A m \in rpcs :
        /\ ServerStopped(m) =>
                /\ nodes' = nodes
                /\ SyncResponse(m, "Stopped", FALSE, 0) \in rpcs'
        /\ (ClientRecv(m) /\ m.result = "Stopped") =>
                m.to \notin DOMAIN nodes'[m.from].sessions]_vars

\* the descriptors of db that clear_expired_peer removes at time t
Expired(db, t) ==
    {p \in DOMAIN db.peer_infos :
        t - db.peer_infos[p].last_update > REMOVE_DEAD_PEER_INFO_AFTER}

\* the sweep of n removes the expired descriptors with their adjacency rows,
\* and nothing else
SweepCorrect(n) ==
    LET db == nodes[n].synced_route_info
        after == nodes'[n].synced_route_info
    IN  /\ DOMAIN after.peer_infos = DOMAIN db.peer_infos \ Expired(db, now)
        /\ DOMAIN after.conn_map = DOMAIN db.conn_map \ Expired(db, now)
        /\ \A p \in DOMAIN after.peer_infos : after.peer_infos[p] = db.peer_infos[p]
        /\ \A p \in DOMAIN after.conn_map : after.conn_map[p] = db.conn_map[p]

Qualifies(n, d) ==
    LET db == nodes[n].synced_route_info.peer_infos
        saved == Session(n, d).dst_saved_peer_info_versions
    IN  {p \in DOMAIN db :
            /\ db[p].version # 0
            /\ p # d
            /\ p \notin DOMAIN saved \/ saved[p] < db[p].version
            /\ p \in DOMAIN nodes[n].route_table.next_hop_map}

\* the call m carries exactly the descriptors n stores for the peers of Q,
\* and none when Q is empty
CarriesDescriptors(n, m, Q) ==
    IF Q = {} THEN m.peer_infos = {}
    ELSE \E infos \in m.peer_infos :
            /\ Len(infos) = Cardinality(Q)
            /\ {infos[i] : i \in 1..Len(infos)} =
                    {nodes[n].synced_route_info.peer_infos[p] : p \in Q}

\* C26: the descriptors a call of sync_route_with_peer carries are those
\* stored with a version other than 0, for a peer other than the neighbour,
\* that the session has saved no version or a lower version of, and that the
\* LeastHop table reaches; the call carries None iff there is none; the
\* neighbour's own descriptor is never among them.
C26_DescriptorDelta ==
    [][\A n \in Running : \A d \in DOMAIN nodes[n].sessions :
        ClientSync(n, d) =>
            \A m \in rpcs' \ rpcs :
                /\ CarriesDescriptors(n, m, Qualifies(n, d))
                /\ \A infos \in m.peer_infos : \A i \in 1..Len(infos) :
                        infos[i].peer_id # d]_vars

\* towards neighbour 3 the node stores four descriptors of version 1 and
\* owes two: not that of neighbour 3, and not that of peer 4, which no row
\* links to a peer the node reaches, although the session has saved neither
C26_Witness ==
    /\ \A p \in {1, 2, 3, 4} : StoredVersion(1, p) >= 1
    /\ 3 \in DOMAIN nodes[1].sessions
    /\ Session(1, 3).dst_saved_peer_info_versions = (3 :> 1)
    /\ 4 \notin DOMAIN nodes[1].route_table.next_hop_map
    /\ \E m \in rpcs : \E infos \in m.peer_infos :
            /\ m.from = 1
            /\ m.to = 3
            /\ m.state = "request"
            /\ {infos[i].peer_id : i \in 1..Len(infos)} = {1, 2}


\* C27: in every state, that is after every operation that changes the
\* database (the refresh of the node's descriptor or row, a call that
\* applies descriptors or a bitmap, the expiry) or rebuilds the tables
\* (set_route_cost_fn), the cached local bitmap is the bitmap assembled from
\* the database and the LeastHop table of that state.
C27_CachedBitmapFresh == \A n \in Running : CacheFresh(n)

\* the versions a call records at the session that sent or served it, on
\* top of the saved versions it found
Recorded(saved, kvs) == set_if_larger_all(saved, kvs)

DescriptorVersions(m) ==
    IF m.peer_infos = {} THEN <<>>
    ELSE LET infos == CHOOSE x \in m.peer_infos : TRUE
         IN  [i \in 1..Len(infos) |-> <<infos[i].peer_id, infos[i].version>>]

RowVersions(m) ==
    IF m.conn_bitmap = {} THEN <<>>
    ELSE (CHOOSE x \in m.conn_bitmap : TRUE).peer_ids

\* the session of n towards d before and after a step that told it the
\* session id sid of d and recorded the versions of the call m: when sid is
\* not the id it held, both maps restart from empty and sid is stored;
\* else they go on from what they held
SessionIdApplied(n, d, sid, m) ==
    LET old == Session(n, d)
        new == nodes'[n].sessions[d]
        changed == sid # old.dst_session_id
    IN  /\ new.dst_session_id = sid
        /\ new.dst_saved_peer_info_versions =
                Recorded(IF changed THEN EmptyMap
                         ELSE old.dst_saved_peer_info_versions,
                         DescriptorVersions(m))
        /\ new.dst_saved_conn_bitmap_version =
                Recorded(IF changed THEN EmptyMap
                         ELSE old.dst_saved_conn_bitmap_version,
                         RowVersions(m))

\* after the step, n owes d every descriptor it stores with a version other
\* than 0 and a next hop, except d's own and those the call m carried, and
\* its bitmap unless the call m carried all its rows
OwesEverything(n, d, m) ==
    LET s == nodes'[n]
        db == s.synced_route_info.peer_infos
        carried == {DescriptorVersions(m)[i][1] : i \in 1..Len(DescriptorVersions(m))}
        rows == {RowVersions(m)[i][1] : i \in 1..Len(RowVersions(m))}
    IN  /\ \A p \in DOMAIN db :
            (/\ db[p].version # 0
             /\ p # d
             /\ p \notin carried
             /\ peer_reachable(s.route_table, p))
            => \E infos \in build_route_info(s, s.sessions[d]) :
                    \E i \in 1..Len(infos) : infos[i] = db[p]
        /\ (\E i \in 1..Len(s.cached_local_conn_map.peer_ids) :
                s.cached_local_conn_map.peer_ids[i][1] \notin rows)
            => build_conn_bitmap(s, s.sessions[d]) = {s.cached_local_conn_map}

\* C28: a call served, or a reply received, that names a session id other
\* than the one the session holds for its neighbour empties both maps of
\* saved versions (which then hold what this call records) and stores the
\* id; one that names the id held leaves them to grow.  After a change of
\* id the session owes the neighbour every reachable descriptor and the
\* bitmap again.
C28_SessionIdReset ==
    [][/\ \A m \in rpcs :
            (/\ ServerSyncRouteInfo(m)
             /\ m.from \in DOMAIN nodes[m.to].sessions
             /\ m.from \in DOMAIN nodes'[m.to].sessions
             /\ nodes'[m.to].panics = nodes[m.to].panics)
            => /\ SessionIdApplied(m.to, m.from, m.my_session_id, m)
               /\ m.my_session_id # Session(m.to, m.from).dst_session_id
                    => OwesEverything(m.to, m.from, m)
       /\ \A m \in rpcs :
            (/\ ClientRecv(m)
             /\ m.result = "Ok"
             /\ m.to \in DOMAIN nodes[m.from].sessions
             /\ Session(m.from, m.to).my_session_id = m.my_session_id)
            => /\ SessionIdApplied(m.from, m.to, m.resp_session_id, m)
               /\ m.resp_session_id # Session(m.from, m.to).dst_session_id
                    => OwesEverything(m.from, m.to, m)]_vars

\* node 2 still holds the session in which it saved versions for session 1
\* of node 1, and has served the first call of session 2 of node 1: it
\* stores the new id and has saved only what that call carried
C28_Witness ==
    /\ 1 \in DOMAIN nodes[2].sessions
    /\ Session(2, 1).my_session_id = 1
    /\ Session(2, 1).rpc_tx_count >= 1
    /\ Session(2, 1).dst_session_id = 2
    /\ Session(2, 1).rpc_rx_count >= 2
    /\ build_route_info(nodes[2], Session(2, 1)) # {}
    /\ 2 \in DOMAIN nodes[1].sessions
    /\ Session(1, 2).my_session_id = 2
    /\ Session(1, 2).rpc_tx_count = 0
    /\ \E m \in rpcs : m.from = 1 /\ m.my_session_id = 2 /\ m.state = "response"

\* the step in which the session task of m.from, still holding the session
\* that made the call m, takes the result of m
ResultTaken(m) ==
    /\ ClientRecv(m)
    /\ m.to \in DOMAIN nodes[m.from].sessions
    /\ Session(m.from, m.to).my_session_id = m.my_session_id

\* the call failed: the session is as it was but for need_sync_initiator_info
FailureHandled(m) ==
    nodes'[m.from].sessions[m.to] =
        [Session(m.from, m.to) EXCEPT !.need_sync_initiator_info = TRUE]

\* the call succeeded: one more call counted, and both maps of saved
\* versions raised by the versions shipped, from the maps of base
SuccessHandled(m, base) ==
    LET old == Session(m.from, m.to)
        new == nodes'[m.from].sessions[m.to]
    IN  /\ new.rpc_tx_count = old.rpc_tx_count + 1
        /\ new.dst_saved_peer_info_versions =
                Recorded(base.dst_saved_peer_info_versions, DescriptorVersions(m))
        /\ new.dst_saved_conn_bitmap_version =
                Recorded(base.dst_saved_conn_bitmap_version, RowVersions(m))
        /\ new.we_are_initiator = old.we_are_initiator
        /\ new.need_sync_initiator_info = old.need_sync_initiator_info

\* C29 (as stated): on success the saved versions are raised, never
\* lowered, by exactly the versions shipped and rpc_tx_count is incremented;
\* on a failure or a timeout the saved versions and both initiator flags
\* are unchanged and need_sync_initiator_info is set.
C29_AsStated ==
    [][\A m \in rpcs :
        ResultTaken(m) =>
            /\ m.result = "Ok" => SuccessHandled(m, Session(m.from, m.to))
            /\ m.result \in {"Failed", "Stopped"} => FailureHandled(m)]_vars

\* C29: the same, except that a reply naming a session id other than the
\* one the session holds empties the saved versions before the versions
\* shipped are recorded.
C29_ClientOutcome ==
    [][\A m \in rpcs :
        ResultTaken(m) =>
            /\ m.result = "Ok" =>
                SuccessHandled(m,
                    IF m.resp_session_id = Session(m.from, m.to).dst_session_id
                    THEN Session(m.from, m.to)
                    ELSE NewSyncRouteSession(m.to, m.my_session_id))
            /\ m.result \in {"Failed", "Stopped"} => FailureHandled(m)]_vars

\* a session that has counted a call, holds the versions that call shipped,
\* and has since had a call fail: need_sync_initiator_info is set and it
\* makes no claim to be up to date
C29_Witness ==
    \E n \in Running : \E d \in DOMAIN nodes[n].sessions :
        /\ Session(n, d).rpc_tx_count >= 1
        /\ n \in DOMAIN Session(n, d).dst_saved_peer_info_versions
        /\ Session(n, d).need_sync_initiator_info
        /\ d \notin topo[n]
        /\ CallsInFlight(n, d) = {}

\* C30 (as stated): the clean-up loop of maintain_sessions never stops the
\* session of the peer it has chosen to initiate to: its assert_ne! holds
\* in every reachable state.
C30_AssertNeHolds == \A n \in Running : "assert_ne" \notin nodes[n].panics

\* the sessions of n that have we_are_initiator set
InitiatorSessions(n) ==
    {d \in DOMAIN nodes[n].sessions : nodes[n].sessions[d].we_are_initiator}

\* the election round of n settles on a target it did not have: the target
\* is one of the peers list_peers() returned and, when the round began, n
\* had no session for it with dst_is_initiator set
ChosenAmongCandidates(n) ==
    \A d \in nodes'[n].cur_dst_peer_id_to_initiate
                \ nodes[n].cur_dst_peer_id_to_initiate :
        /\ d \in topo[n]
        /\ d \in DOMAIN nodes[n].sessions => ~nodes[n].sessions[d].dst_is_initiator

\* C31: a node has at most one session with we_are_initiator set, that
\* session is the one to the target its election currently holds, and an
\* election round settles on a target only among the directly connected
\* peers that were not initiating towards the node.
C31_OneInitiatorSession ==
    /\ [](\A n \in Running :
            /\ Cardinality(InitiatorSessions(n)) <= 1
            /\ \A d \in InitiatorSessions(n) :
                    nodes[n].cur_dst_peer_id_to_initiate = {d})
    /\ [][\A n \in Running : MaintainSessions(n) => ChosenAmongCandidates(n)]_vars

\* the election of node 1 has moved from one target to another: two sessions,
\* the flag cleared on the one to the former target (which now initiates
\* towards node 1) and set on the one to the new target
C31_Witness ==
    /\ nodes[1].cur_dst_peer_id_to_initiate = {3}
    /\ {2, 3} \subseteq DOMAIN nodes[1].sessions
    /\ InitiatorSessions(1) = {3}
    /\ nodes[1].sessions[2].dst_is_initiator
    /\ nodes[1].sessions[2].rpc_tx_count + nodes[1].sessions[2].rpc_rx_count > 0

\* the rows of bitmap bm that carry the label p
RowsOf(bm, p) == {i \in 1..Len(bm.peer_ids) : bm.peer_ids[i][1] = p}

\* every id bm mentions: its row labels and the members of its decoded rows
Mentioned(bm) ==
    {bm.peer_ids[i][1] : i \in 1..Len(bm.peer_ids)}
        \cup UNION {get_connected_peers(bm, i) : i \in 1..Len(bm.peer_ids)}

\* the adjacency record db holds for p once p has been ensured
EnsuredRow(db, p) ==
    IF p \in DOMAIN db.conn_map THEN db.conn_map[p]
    ELSE [peers |-> {}, version |-> 0]

\* db2 is db after bm: every mentioned id has a descriptor (the stored one,
\* or a placeholder) and an adjacency record; a label's record is that of
\* its first row of the highest version when that version is above the
\* stored one, and the ensured record otherwise; nothing else has changed
ConnMapApplied(db, bm, db2, t) ==
    /\ DOMAIN db2.peer_infos = DOMAIN db.peer_infos \cup Mentioned(bm)
    /\ DOMAIN db2.conn_map = DOMAIN db.conn_map \cup Mentioned(bm)
    /\ \A p \in DOMAIN db2.peer_infos :
            db2.peer_infos[p] = IF p \in DOMAIN db.peer_infos
                                THEN db.peer_infos[p] ELSE NewRoutePeerInfo(t)
    /\ \A p \in DOMAIN db2.conn_map :
            LET rows == RowsOf(bm, p)
                top == MaxOf({bm.peer_ids[i][2] : i \in rows} \cup {0})
                first == MinOf({i \in rows : bm.peer_ids[i][2] = top})
            IN  db2.conn_map[p] =
                    IF rows # {} /\ top > EnsuredRow(db, p).version
                    THEN [peers |-> get_connected_peers(bm, first), version |-> top]
                    ELSE EnsuredRow(db, p)
    /\ \A p \in DOMAIN db.conn_map :
            db2.conn_map[p].version >= db.conn_map[p].version

\* C32: update_conn_map leaves every id the bitmap mentions with a descriptor
\* (a placeholder if it had none) and an adjacency record; a row replaces the
\* stored set and version exactly when its version is above the stored one,
\* and no stored adjacency version decreases.
C32_ApplyBitmap ==
    [][\A m \in rpcs : UpdateConnMap(m) =>
            \A bm \in m.conn_bitmap :
                ConnMapApplied(nodes[m.to].synced_route_info, bm,
                               nodes'[m.to].synced_route_info, now)]_vars

\* after several bitmaps: the row of peer 3 stands at the highest version
\* with the set {3}, the row of the unknown peer 4 was created with the set
\* {1}, and a bitmap that carries the row of 3 at a lower version and a row
\* of 2 that names 3 has just been applied
C32_Witness ==
    /\ rpcs = {}
    /\ \A p \in {2, 3, 4} : p \in DOMAIN nodes[1].synced_route_info.conn_map
    /\ nodes[1].synced_route_info.conn_map[3] =
            [peers |-> {3}, version |-> MaxVersion]
    /\ nodes[1].synced_route_info.conn_map[4] = [peers |-> {1}, version |-> 1]
    /\ nodes[1].synced_route_info.conn_map[2] = [peers |-> {3}, version |-> 1]
    /\ is_placeholder(nodes[1].synced_route_info.peer_infos[4])

\* db2 is db after the descriptors of batch were applied at time t: each id
\* of the batch holds the stored descriptor when none of its descriptors is
\* newer, and otherwise the first of its descriptors of the highest version,
\* stamped with t; no other descriptor and no adjacency record has changed
DescriptorsApplied(db, batch, db2, t) ==
    LET ids == {batch[i].peer_id : i \in 1..Len(batch)}
    IN  /\ db2.conn_map = db.conn_map
        /\ DOMAIN db2.peer_infos = DOMAIN db.peer_infos \cup ids
        /\ \A p \in DOMAIN db2.peer_infos :
            LET rows == {i \in 1..Len(batch) : batch[i].peer_id = p}
                top == MaxOf({batch[i].version : i \in rows} \cup {0})
                first == MinOf({i \in rows : batch[i].version = top})
            IN  db2.peer_infos[p] =
                    IF rows = {} \/ (p \in DOMAIN db.peer_infos
                                        /\ top <= db.peer_infos[p].version)
                    THEN db.peer_infos[p]
                    ELSE [batch[first] EXCEPT !.last_update = t]

\* the batch of m is clean: no descriptor claims the node's id at a newer
\* version and none carries the caller's id at a version below the stored one
CleanBatch(m) ==
    \A i \in 1..2 : ~ClaimsMyId(m.to, m, i) /\ ~Regressed(m.to, m, i)

\* update_peer_infos, called with the batch of m, has given result and left
\* the database it was given as it was
Refused(m, result) ==
    /\ \A r \in rpcs' : r.result = result
    /\ nodes'[m.to].synced_route_info = nodes[m.to].synced_route_info

\* C33 (as stated): a batch that holds a descriptor of the node's own id at
\* a version above the stored one makes update_peer_infos panic, and no
\* descriptor of the batch is written; a batch with no such descriptor and
\* no regressed descriptor of the caller is applied.
C33_AsStated ==
    [][\A m \in rpcs : UpdatePeerInfos(m) =>
        /\ (\E i \in 1..2 : ClaimsMyId(m.to, m, i)) => Refused(m, "Panic")
        /\ CleanBatch(m) =>
            /\ \A r \in rpcs' : r.result = "Ok"
            /\ \A b \in m.peer_infos :
                DescriptorsApplied(nodes[m.to].synced_route_info, b,
                                   nodes'[m.to].synced_route_info, now')]_vars

\* C33, amended: a batch that holds a descriptor of the node's own id at a
\* version above the stored one is never written to the database, and makes
\* update_peer_infos panic unless a descriptor earlier in the batch carries
\* the caller's id at a version below the stored one, in which case
\* DuplicatePeerId is returned; a batch with no such descriptor and no
\* regressed descriptor of the caller is applied.
C33_IdentityConflict ==
    [][\A m \in rpcs : UpdatePeerInfos(m) =>
        /\ \A i \in 1..2 : ClaimsMyId(m.to, m, i) =>
                Refused(m, IF \E j \in 1..(i - 1) : Regressed(m.to, m, j)
                           THEN "DuplicatePeerId" ELSE "Panic")
        /\ CleanBatch(m) =>
            /\ \A r \in rpcs' : r.result = "Ok"
            /\ \A b \in m.peer_infos :
                DescriptorsApplied(nodes[m.to].synced_route_info, b,
                                   nodes'[m.to].synced_route_info, now')]_vars

\* update_peer_infos has panicked on a batch that carries a new descriptor
\* of the caller and then the node's own id at a version above the stored
\* one: the caller's descriptor was not written
C33_Witness ==
    /\ \E m \in rpcs :
        /\ m.state = "applied"
        /\ m.result = "Panic"
        /\ \E b \in m.peer_infos :
            /\ Len(b) = 2
            /\ b[1].peer_id = 2 /\ b[1].version = MaxVersion
            /\ b[2].peer_id = 1 /\ b[2].version > StoredVersion(1, 1)
    /\ StoredVersion(1, 2) = 0

\* what n stores for p is no newer than what p stores for itself
VersionBound(n, p) ==
    /\ StoredVersion(n, p) <= StoredVersion(p, p)
    /\ StoredConnVersion(n, p) <= StoredConnVersion(p, p)

\* the call m carries nothing of its receiver that is newer than what the
\* receiver stores for itself: applying it leaves the receiver's own
\* descriptor and own adjacency row as they are
CarriesNothingNewer(m) ==
    /\ \A b \in m.peer_infos : \A i \in 1..Len(b) :
            b[i].peer_id = m.to => b[i].version <= StoredVersion(m.to, m.to)
    /\ \A bm \in m.conn_bitmap : \A i \in 1..Len(bm.peer_ids) :
            bm.peer_ids[i][1] = m.to =>
                bm.peer_ids[i][2] <= StoredConnVersion(m.to, m.to)

SavedWithinStored(n, session) ==
    /\ \A p \in DOMAIN session.dst_saved_peer_info_versions :
            session.dst_saved_peer_info_versions[p] <= StoredVersion(n, p)
    /\ \A p \in DOMAIN session.dst_saved_conn_bitmap_version :
            session.dst_saved_conn_bitmap_version[p] <= StoredConnVersion(n, p)

\* C35 (as stated): in every state, whatever version a session has saved for
\* a peer id, of its descriptor or of its adjacency row, is at most the
\* version the node's database stores for that peer, also after the expiry
\* sweep has removed the peer's records.
C35_HighWaterSound ==
    \A n \in Running : \A d \in DOMAIN nodes[n].sessions :
        SavedWithinStored(n, nodes[n].sessions[d])

\* the ids the adjacency map of db refers to, as a key or as a member of a
\* stored set, for which db lacks the descriptor or the adjacency record
Dangling(db) ==
    {p \in DOMAIN db.conn_map \cup UNION {db.conn_map[q].peers : q \in DOMAIN db.conn_map} :
        p \notin DOMAIN db.peer_infos \/ p \notin DOMAIN db.conn_map}

\* C36 (as stated): in every state, every key of the adjacency map and
\* every member of a stored adjacency set has a descriptor and an adjacency
\* record, whatever sequence of refreshes, inbound calls and expiry sweeps
\* the node has gone through.
C36_AsStated ==
    \A n \in Running : Dangling(nodes[n].synced_route_info) = {}

\* C36, amended: every key of the adjacency map has a descriptor in every
\* state; a refresh or an inbound call leaves no id referred to without its
\* descriptor or record that was not already so, and the expiry sweep only
\* the ids it removed, which stay members of the rows that named them.
C36_ClosedUpToExpiry ==
    /\ \A n \in Running : Dangling(nodes[n].synced_route_info) = {}
    /\ [](\A n \in Running :
            DOMAIN nodes[n].synced_route_info.conn_map
                \subseteq DOMAIN nodes[n].synced_route_info.peer_infos)
    /\ [][\A n \in Running :
            Dangling(nodes'[n].synced_route_info) \subseteq
                Dangling(nodes[n].synced_route_info) \cup
                    IF ClearExpiredPeer(n)
                    THEN Expired(nodes[n].synced_route_info, now)
                    ELSE {}]_vars

\* the sweep has removed peer 3, which the stored row of peer 2 still
\* names; peer 2, whose descriptor arrived later, and its row are kept
C36_Witness ==
    /\ 2 \in DOMAIN nodes[1].synced_route_info.conn_map
    /\ StoredVersion(1, 2) >= 1
    /\ nodes[1].synced_route_info.conn_map[2].peers = {3}
    /\ Dangling(nodes[1].synced_route_info) = {3}

\* C37 (as stated): whenever a route table has been built from a database
\* with a descriptor of version >= 1 in it, the node's own descriptor was
\* among them, so that the shortest-path search found its source node; this
\* in every interleaving of the tasks start() spawns with inbound calls.
C37_SourcePresent ==
    \A n \in Running :
        /\ DOMAIN nodes[n].route_table.peer_infos # {} =>
                n \in DOMAIN nodes[n].route_table.peer_infos
        /\ "update_route_table" \notin nodes[n].panics

\* C38 (as stated): however the expiry sweep interleaves with a handler or
\* a refresh, update_conn_map finds a descriptor for every row label at its
\* assert!(self.peer_infos.contains_key(peer_id)).
C38_NoFailedAssertion ==
    \A n \in Running : "update_conn_map" \notin nodes[n].panics

\* the next hops of table, built at n, are neighbours of n: the entry of n
\* is (n, 0), and the next hop h of any other destination is a member of the
\* adjacency set n stores for itself, has a descriptor of version >= 1, and
\* is its own next hop
NextHopsAreNeighbors(n, table) ==
    LET db == nodes'[n].synced_route_info
    IN  /\ n \in DOMAIN table.next_hop_map
        /\ table.next_hop_map[n] = <<n, 0>>
        /\ \A d \in DOMAIN table.next_hop_map \ {n} :
            LET h == table.next_hop_map[d][1]
            IN  /\ n \in DOMAIN db.conn_map
                /\ h \in db.conn_map[n].peers
                /\ h \in DOMAIN db.peer_infos
                /\ ~is_placeholder(db.peer_infos[h])
                /\ h \in DOMAIN table.next_hop_map
                /\ table.next_hop_map[h][1] = h

FirstHopsDirect(n) ==
    LET db == nodes'[n].synced_route_info
        peers == LivePeers(db)
        calc == nodes'[n].cost_calculator
    IN  With(UNION {simple_paths_len(peers, peer_graph_edges(peers, db), n, k) :
                        k \in 1..(Cardinality(peers) - 1)}, LAMBDA paths :
        With([p \in paths |-> path_cost(calc, p)], LAMBDA cost :
        With({p \in paths :
                \A q \in paths : q[Len(q)] = p[Len(p)] => cost[p] <= cost[q]},
             LAMBDA least :
            \A p \in least : <<n, p[2]>> \in least)))

RECURSIVE forward(_, _, _)
\* the nodes a packet for dst visits when each node on its way hands it to
\* its next hop under the policy; it stops at dst, at a node without a next
\* hop for dst, or once it has visited more nodes than there are
forward(path, dst, policy) ==
    LET at == path[Len(path)]
        nh == get_next_hop_with_policy(nodes[at], dst, policy)
    IN  IF at = dst \/ nh = {} \/ Len(path) > Cardinality(Running) THEN path
        ELSE forward(Append(path, CHOOSE h \in nh : TRUE), dst, policy)

\* every node has built its tables
AllBuilt == \A n \in Running : n \in DOMAIN nodes[n].route_table.next_hop_map

\* the walk from src to dst arrives and visits no node twice
Arrives(path, dst) ==
    /\ path[Len(path)] = dst
    /\ Cardinality(Range(path)) = Len(path)

\* C40: when all nodes hold the same database and cost calculator and have
\* built their tables, a packet forwarded along LeastHop next hops reaches
\* each destination of the source's table in the number of hops recorded
\* there without visiting a node twice, and along LeastCost next hops it
\* reaches the destination at the total cost recorded there without visiting
\* a node twice.
C40_LoopFreeForwarding ==
    (AllBuilt /\ \A n \in Running :
            /\ nodes[n].synced_route_info = nodes[BuildLocal].synced_route_info
            /\ nodes[n].cost_calculator = nodes[BuildLocal].cost_calculator) =>
        \A src \in Running :
            /\ \A dst \in DOMAIN nodes[src].route_table.next_hop_map \ {src} :
                With(forward(<<src>>, dst, "LeastHop"), LAMBDA path :
                    /\ Arrives(path, dst)
                    /\ Len(path) - 1 = nodes[src].route_table.next_hop_map[dst][2])
            /\ \A dst \in DOMAIN nodes[src].route_table_with_cost.next_hop_map \ {src} :
                With(forward(<<src>>, dst, "LeastCost"), LAMBDA path :
                    /\ Arrives(path, dst)
                    /\ path_cost(nodes[src].cost_calculator, path) =
                            nodes[src].route_table_with_cost.next_hop_map[dst][2])

\* all four nodes have built, and under the calculator of
\* test_cost_calculator the least-cost walk from 4 to 1 is 4, 3, 2, 1 while
\* the least-hop walk takes two hops
C40_Witness ==
    /\ AllBuilt
    /\ nodes[BuildLocal].cost_calculator = TestCostCalculator
    /\ forward(<<4>>, 1, "LeastCost") = <<4, 3, 2, 1>>
    /\ Len(forward(<<4>>, 1, "LeastHop")) = 3

====
